---- MODULE Spec2Model ----
(***************************************************************************)
(* Resource-type resolution and schema-driven column extraction of         *)
(* kubectl-multi (pkg/util/formatting.go).                                 *)
(*                                                                         *)
(* Go strings are modelled as sequences of one-character strings, so that  *)
(* lower-casing, suffix tests, splitting and joining are computed          *)
(* character by character, as the Go code computes them.                   *)
(***************************************************************************)
EXTENDS Naturals, Integers, Sequences, FiniteSets, TLC

VARIABLES
    pc,     \* "idle" before the call, "done" after it returned
    call,   \* the operation invoked and its arguments
    ret     \* what the operation returned, a record of its results

vars == <<pc, call, ret>>

----------------------------------------------------------------------------
(* Bounds of the model.                                                    *)

\* longest generated type string over Alphabet
MaxLen == 3
\* most resource lists in a discovery catalog
MaxLists == 2
\* most API resources in one resource list
MaxRes == 2
\* most entries of a generated list of a record
MaxItems == 2

\* most labels of a label map
MaxLabels == 3

----------------------------------------------------------------------------
(* Go string primitives.                                                   *)

UpperCase ==
    <<"A","B","C","D","E","F","G","H","I","J","K","L","M",
      "N","O","P","Q","R","S","T","U","V","W","X","Y","Z">>

LowerCase ==
    <<"a","b","c","d","e","f","g","h","i","j","k","l","m",
      "n","o","p","q","r","s","t","u","v","w","x","y","z">>

\* the lower-case letter of every upper-case letter
lowerOf ==
    [c \in {UpperCase[i] : i \in DOMAIN UpperCase} |->
        LowerCase[CHOOSE i \in DOMAIN UpperCase : UpperCase[i] = c]]

\* unicode.ToLower on one character (ASCII range)
ToLowerChar(c) == IF c \in DOMAIN lowerOf THEN lowerOf[c] ELSE c

\* strings.ToLower
ToLower(s) == [i \in 1..Len(s) |-> ToLowerChar(s[i])]

\* strings.HasSuffix
HasSuffix(s, suffix) ==
    /\ Len(s) >= Len(suffix)
    /\ SubSeq(s, Len(s) - Len(suffix) + 1, Len(s)) = suffix

\* strings.EqualFold: equality under simple case folding
EqualFold(s, t) ==
    /\ Len(s) = Len(t)
    /\ \A i \in 1..Len(s) : ToLowerChar(s[i]) = ToLowerChar(t[i])

\* strings.Count(s, sep) for a one-character separator
Count(s, sep) == Cardinality({i \in 1..Len(s) : s[i] = sep})

\* strings.Index(s, sep) for a one-character separator that occurs in s
Index(s, sep) == CHOOSE i \in 1..Len(s) :
    s[i] = sep /\ \A j \in 1..(i - 1) : s[j] # sep

----------------------------------------------------------------------------
(* Alias normalizer.                                                       *)

\* the alias table of normalizeResourceType
aliases ==
    <<"p","o">> :> <<"p","o","d","s">> @@
    <<"s","v","c">> :> <<"s","e","r","v","i","c","e","s">> @@
    <<"n","o">> :> <<"n","o","d","e","s">> @@
    <<"n","s">> :> <<"n","a","m","e","s","p","a","c","e","s">> @@
    <<"p","v">> :> <<"p","e","r","s","i","s","t","e","n","t","v","o","l","u","m","e","s">> @@
    <<"p","v","c">> :> <<"p","e","r","s","i","s","t","e","n","t","v","o","l","u","m","e","c","l","a","i","m","s">> @@
    <<"c","m">> :> <<"c","o","n","f","i","g","m","a","p","s">> @@
    <<"d","e","p","l","o","y">> :> <<"d","e","p","l","o","y","m","e","n","t","s">> @@
    <<"r","s">> :> <<"r","e","p","l","i","c","a","s","e","t","s">> @@
    <<"d","s">> :> <<"d","a","e","m","o","n","s","e","t","s">> @@
    <<"s","t","s">> :> <<"s","t","a","t","e","f","u","l","s","e","t","s">> @@
    <<"j","o","b">> :> <<"j","o","b","s">> @@
    <<"c","j">> :> <<"c","r","o","n","j","o","b","s">> @@
    <<"i","n","g">> :> <<"i","n","g","r","e","s","s","e","s">> @@
    <<"e","p">> :> <<"e","n","d","p","o","i","n","t","s">> @@
    <<"s","a">> :> <<"s","e","r","v","i","c","e","a","c","c","o","u","n","t","s">>

normalizeNoFold(resourceType) ==
    IF resourceType \in DOMAIN aliases
    THEN aliases[resourceType]
    ELSE LET lower == ToLower(resourceType)
         IN  IF ~HasSuffix(lower, <<"s">>) THEN lower \o <<"s">> ELSE lower

normalizeAlwaysPlural(resourceType) ==
    LET lower == ToLower(resourceType)
    IN  IF lower \in DOMAIN aliases
        THEN aliases[lower]
        ELSE lower \o <<"s">>

normalizeResourceType(resourceType) ==
    LET lower == ToLower(resourceType)
    IN  IF lower \in DOMAIN aliases
        THEN aliases[lower]
        ELSE IF ~HasSuffix(lower, <<"s">>) THEN lower \o <<"s">> ELSE lower

----------------------------------------------------------------------------
(* Resource type resolver.                                                 *)

EmptyGVR == [Group |-> <<>>, Version |-> <<>>, Resource |-> <<>>]

\* schema.ParseGroupVersion as DiscoverGVR uses it: "" and "/" give the
\* empty group-version, "v" gives the core group, "g/v" is split at the
\* slash, more than one slash is an error.
ParseGroupVersion(gv) ==
    IF Len(gv) = 0 \/ gv = <<"/">>
    THEN [err |-> FALSE, Group |-> <<>>, Version |-> <<>>]
    ELSE IF Count(gv, "/") = 0
    THEN [err |-> FALSE, Group |-> <<>>, Version |-> gv]
    ELSE IF Count(gv, "/") = 1
    THEN [err |-> FALSE,
          Group |-> SubSeq(gv, 1, Index(gv, "/") - 1),
          Version |-> SubSeq(gv, Index(gv, "/") + 1, Len(gv))]
    ELSE [err |-> TRUE, Group |-> <<>>, Version |-> <<>>]

\* the static default table of getDefaultGVR
defaults ==
    <<"p","o","d","s">> :>
        [Group |-> <<>>, Version |-> <<"v","1">>,
         Resource |-> <<"p","o","d","s">>] @@
    <<"s","e","r","v","i","c","e","s">> :>
        [Group |-> <<>>, Version |-> <<"v","1">>,
         Resource |-> <<"s","e","r","v","i","c","e","s">>] @@
    <<"n","o","d","e","s">> :>
        [Group |-> <<>>, Version |-> <<"v","1">>,
         Resource |-> <<"n","o","d","e","s">>] @@
    <<"n","a","m","e","s","p","a","c","e","s">> :>
        [Group |-> <<>>, Version |-> <<"v","1">>,
         Resource |-> <<"n","a","m","e","s","p","a","c","e","s">>] @@
    <<"p","e","r","s","i","s","t","e","n","t","v","o","l","u","m","e","s">> :>
        [Group |-> <<>>, Version |-> <<"v","1">>,
         Resource |-> <<"p","e","r","s","i","s","t","e","n","t","v","o","l","u","m","e","s">>] @@
    <<"p","e","r","s","i","s","t","e","n","t","v","o","l","u","m","e","c","l","a","i","m","s">> :>
        [Group |-> <<>>, Version |-> <<"v","1">>,
         Resource |-> <<"p","e","r","s","i","s","t","e","n","t","v","o","l","u","m","e","c","l","a","i","m","s">>] @@
    <<"c","o","n","f","i","g","m","a","p","s">> :>
        [Group |-> <<>>, Version |-> <<"v","1">>,
         Resource |-> <<"c","o","n","f","i","g","m","a","p","s">>] @@
    <<"s","e","c","r","e","t","s">> :>
        [Group |-> <<>>, Version |-> <<"v","1">>,
         Resource |-> <<"s","e","c","r","e","t","s">>] @@
    <<"d","e","p","l","o","y","m","e","n","t","s">> :>
        [Group |-> <<"a","p","p","s">>, Version |-> <<"v","1">>,
         Resource |-> <<"d","e","p","l","o","y","m","e","n","t","s">>] @@
    <<"r","e","p","l","i","c","a","s","e","t","s">> :>
        [Group |-> <<"a","p","p","s">>, Version |-> <<"v","1">>,
         Resource |-> <<"r","e","p","l","i","c","a","s","e","t","s">>] @@
    <<"d","a","e","m","o","n","s","e","t","s">> :>
        [Group |-> <<"a","p","p","s">>, Version |-> <<"v","1">>,
         Resource |-> <<"d","a","e","m","o","n","s","e","t","s">>] @@
    <<"s","t","a","t","e","f","u","l","s","e","t","s">> :>
        [Group |-> <<"a","p","p","s">>, Version |-> <<"v","1">>,
         Resource |-> <<"s","t","a","t","e","f","u","l","s","e","t","s">>] @@
    <<"j","o","b","s">> :>
        [Group |-> <<"b","a","t","c","h">>, Version |-> <<"v","1">>,
         Resource |-> <<"j","o","b","s">>] @@
    <<"c","r","o","n","j","o","b","s">> :>
        [Group |-> <<"b","a","t","c","h">>, Version |-> <<"v","1">>,
         Resource |-> <<"c","r","o","n","j","o","b","s">>] @@
    <<"i","n","g","r","e","s","s","e","s">> :>
        [Group |-> <<"n","e","t","w","o","r","k","i","n","g",".","k","8","s",".","i","o">>, Version |-> <<"v","1">>,
         Resource |-> <<"i","n","g","r","e","s","s","e","s">>] @@
    <<"e","n","d","p","o","i","n","t","s">> :>
        [Group |-> <<>>, Version |-> <<"v","1">>,
         Resource |-> <<"e","n","d","p","o","i","n","t","s">>] @@
    <<"s","e","r","v","i","c","e","a","c","c","o","u","n","t","s">> :>
        [Group |-> <<>>, Version |-> <<"v","1">>,
         Resource |-> <<"s","e","r","v","i","c","e","a","c","c","o","u","n","t","s">>]

matchesNameOnly(apiResource, resourceType) ==
    EqualFold(apiResource.Name, resourceType)

matchesResourceType(apiResource, resourceType) ==
    \/ EqualFold(apiResource.Name, resourceType)
    \/ EqualFold(apiResource.SingularName, resourceType)
    \/ \E i \in DOMAIN apiResource.ShortNames :
           EqualFold(apiResource.ShortNames[i], resourceType)

getDefaultGVRNoVersion(resourceType) ==
    IF resourceType \in DOMAIN defaults
    THEN defaults[resourceType]
    ELSE [Group |-> <<>>, Version |-> <<>>, Resource |-> resourceType]

getDefaultGVRHeuristicOnly(resourceType) ==
    [Group |-> <<>>, Version |-> <<"v","1">>, Resource |-> resourceType]

getDefaultGVR(resourceType) ==
    IF resourceType \in DOMAIN defaults
    THEN defaults[resourceType]
    ELSE [Group |-> <<>>, Version |-> <<"v","1">>, Resource |-> resourceType]

\* the inner loop of DiscoverGVR: the index of the first API resource at
\* or after j that matches, 0 when the list has none
RECURSIVE scanResources(_, _, _)
scanResources(apiResources, normalizedType, j) ==
    IF j > Len(apiResources)
    THEN 0
    ELSE IF matchesResourceType(apiResources[j], normalizedType)
    THEN j
    ELSE scanResources(apiResources, normalizedType, j + 1)

RECURSIVE scanListsParseErrorFatal(_, _, _)
scanListsParseErrorFatal(apiResourceLists, normalizedType, i) ==
    IF i > Len(apiResourceLists)
    THEN [gvr |-> getDefaultGVR(normalizedType), namespaced |-> TRUE,
          err |-> FALSE]
    ELSE LET apiResourceList == apiResourceLists[i]
             gv == ParseGroupVersion(apiResourceList.GroupVersion)
             j  == scanResources(apiResourceList.APIResources,
                                 normalizedType, 1)
         IN  IF gv.err
             THEN [gvr |-> EmptyGVR, namespaced |-> FALSE, err |-> TRUE]
             ELSE IF j # 0
             THEN [gvr |-> [Group |-> gv.Group, Version |-> gv.Version,
                            Resource |-> apiResourceList.APIResources[j].Name],
                   namespaced |-> apiResourceList.APIResources[j].Namespaced,
                   err |-> FALSE]
             ELSE scanListsParseErrorFatal(apiResourceLists, normalizedType,
                                           i + 1)

\* the outer loop of DiscoverGVR from list i on, and the fallback after it
RECURSIVE scanLists(_, _, _)
scanLists(apiResourceLists, normalizedType, i) ==
    IF i > Len(apiResourceLists)
    THEN [gvr |-> getDefaultGVR(normalizedType), namespaced |-> TRUE,
          err |-> FALSE]
    ELSE LET apiResourceList == apiResourceLists[i]
             gv == ParseGroupVersion(apiResourceList.GroupVersion)
             j  == scanResources(apiResourceList.APIResources,
                                 normalizedType, 1)
         IN  IF gv.err
             THEN scanLists(apiResourceLists, normalizedType, i + 1)
             ELSE IF j # 0
             THEN [gvr |-> [Group |-> gv.Group, Version |-> gv.Version,
                            Resource |-> apiResourceList.APIResources[j].Name],
                   namespaced |-> apiResourceList.APIResources[j].Namespaced,
                   err |-> FALSE]
             ELSE scanLists(apiResourceLists, normalizedType, i + 1)

\* queryErr: ServerGroupsAndResources returned a non-nil error
DiscoverGVR(queryErr, apiResourceLists, resourceType) ==
    IF queryErr
    THEN [gvr |-> EmptyGVR, namespaced |-> FALSE, err |-> TRUE]
    ELSE scanLists(apiResourceLists, normalizeResourceType(resourceType), 1)

----------------------------------------------------------------------------
(* Column schema registry.                                                 *)

\* the column table of GetResourceColumns
columns ==
    <<"p","o","d","s">> :> <<
        [Name |-> <<"R","E","A","D","Y">>,
         JSONPath |-> <<"s","t","a","t","u","s",".","c","o","n","t","a","i","n","e","r","S","t","a","t","u","s","e","s">>,
         DefaultValue |-> <<"<","u","n","k","n","o","w","n",">">>],
        [Name |-> <<"S","T","A","T","U","S">>,
         JSONPath |-> <<"s","t","a","t","u","s",".","p","h","a","s","e">>,
         DefaultValue |-> <<"<","u","n","k","n","o","w","n",">">>],
        [Name |-> <<"R","E","S","T","A","R","T","S">>,
         JSONPath |-> <<"s","t","a","t","u","s",".","c","o","n","t","a","i","n","e","r","S","t","a","t","u","s","e","s">>,
         DefaultValue |-> <<"<","u","n","k","n","o","w","n",">">>],
        [Name |-> <<"A","G","E">>,
         JSONPath |-> <<"m","e","t","a","d","a","t","a",".","c","r","e","a","t","i","o","n","T","i","m","e","s","t","a","m","p">>,
         DefaultValue |-> <<"<","u","n","k","n","o","w","n",">">>] >> @@
    <<"s","e","r","v","i","c","e","s">> :> <<
        [Name |-> <<"T","Y","P","E">>,
         JSONPath |-> <<"s","p","e","c",".","t","y","p","e">>,
         DefaultValue |-> <<"C","l","u","s","t","e","r","I","P">>],
        [Name |-> <<"C","L","U","S","T","E","R","-","I","P">>,
         JSONPath |-> <<"s","p","e","c",".","c","l","u","s","t","e","r","I","P">>,
         DefaultValue |-> <<"<","n","o","n","e",">">>],
        [Name |-> <<"E","X","T","E","R","N","A","L","-","I","P">>,
         JSONPath |-> <<"s","t","a","t","u","s",".","l","o","a","d","B","a","l","a","n","c","e","r",".","i","n","g","r","e","s","s">>,
         DefaultValue |-> <<"<","n","o","n","e",">">>],
        [Name |-> <<"P","O","R","T","(","S",")">>,
         JSONPath |-> <<"s","p","e","c",".","p","o","r","t","s">>,
         DefaultValue |-> <<"<","n","o","n","e",">">>],
        [Name |-> <<"A","G","E">>,
         JSONPath |-> <<"m","e","t","a","d","a","t","a",".","c","r","e","a","t","i","o","n","T","i","m","e","s","t","a","m","p">>,
         DefaultValue |-> <<"<","u","n","k","n","o","w","n",">">>] >> @@
    <<"d","e","p","l","o","y","m","e","n","t","s">> :> <<
        [Name |-> <<"R","E","A","D","Y">>,
         JSONPath |-> <<"s","t","a","t","u","s",".","r","e","a","d","y","R","e","p","l","i","c","a","s">>,
         DefaultValue |-> <<"0">>],
        [Name |-> <<"U","P","-","T","O","-","D","A","T","E">>,
         JSONPath |-> <<"s","t","a","t","u","s",".","u","p","d","a","t","e","d","R","e","p","l","i","c","a","s">>,
         DefaultValue |-> <<"0">>],
        [Name |-> <<"A","V","A","I","L","A","B","L","E">>,
         JSONPath |-> <<"s","t","a","t","u","s",".","a","v","a","i","l","a","b","l","e","R","e","p","l","i","c","a","s">>,
         DefaultValue |-> <<"0">>],
        [Name |-> <<"A","G","E">>,
         JSONPath |-> <<"m","e","t","a","d","a","t","a",".","c","r","e","a","t","i","o","n","T","i","m","e","s","t","a","m","p">>,
         DefaultValue |-> <<"<","u","n","k","n","o","w","n",">">>] >> @@
    <<"r","e","p","l","i","c","a","s","e","t","s">> :> <<
        [Name |-> <<"D","E","S","I","R","E","D">>,
         JSONPath |-> <<"s","p","e","c",".","r","e","p","l","i","c","a","s">>,
         DefaultValue |-> <<"0">>],
        [Name |-> <<"C","U","R","R","E","N","T">>,
         JSONPath |-> <<"s","t","a","t","u","s",".","r","e","p","l","i","c","a","s">>,
         DefaultValue |-> <<"0">>],
        [Name |-> <<"R","E","A","D","Y">>,
         JSONPath |-> <<"s","t","a","t","u","s",".","r","e","a","d","y","R","e","p","l","i","c","a","s">>,
         DefaultValue |-> <<"0">>],
        [Name |-> <<"A","G","E">>,
         JSONPath |-> <<"m","e","t","a","d","a","t","a",".","c","r","e","a","t","i","o","n","T","i","m","e","s","t","a","m","p">>,
         DefaultValue |-> <<"<","u","n","k","n","o","w","n",">">>] >> @@
    <<"d","a","e","m","o","n","s","e","t","s">> :> <<
        [Name |-> <<"D","E","S","I","R","E","D">>,
         JSONPath |-> <<"s","t","a","t","u","s",".","d","e","s","i","r","e","d","N","u","m","b","e","r","S","c","h","e","d","u","l","e","d">>,
         DefaultValue |-> <<"0">>],
        [Name |-> <<"C","U","R","R","E","N","T">>,
         JSONPath |-> <<"s","t","a","t","u","s",".","c","u","r","r","e","n","t","N","u","m","b","e","r","S","c","h","e","d","u","l","e","d">>,
         DefaultValue |-> <<"0">>],
        [Name |-> <<"R","E","A","D","Y">>,
         JSONPath |-> <<"s","t","a","t","u","s",".","n","u","m","b","e","r","R","e","a","d","y">>,
         DefaultValue |-> <<"0">>],
        [Name |-> <<"U","P","-","T","O","-","D","A","T","E">>,
         JSONPath |-> <<"s","t","a","t","u","s",".","u","p","d","a","t","e","d","N","u","m","b","e","r","S","c","h","e","d","u","l","e","d">>,
         DefaultValue |-> <<"0">>],
        [Name |-> <<"A","V","A","I","L","A","B","L","E">>,
         JSONPath |-> <<"s","t","a","t","u","s",".","n","u","m","b","e","r","A","v","a","i","l","a","b","l","e">>,
         DefaultValue |-> <<"0">>],
        [Name |-> <<"N","O","D","E"," ","S","E","L","E","C","T","O","R">>,
         JSONPath |-> <<"s","p","e","c",".","t","e","m","p","l","a","t","e",".","s","p","e","c",".","n","o","d","e","S","e","l","e","c","t","o","r">>,
         DefaultValue |-> <<"<","n","o","n","e",">">>],
        [Name |-> <<"A","G","E">>,
         JSONPath |-> <<"m","e","t","a","d","a","t","a",".","c","r","e","a","t","i","o","n","T","i","m","e","s","t","a","m","p">>,
         DefaultValue |-> <<"<","u","n","k","n","o","w","n",">">>] >> @@
    <<"s","t","a","t","e","f","u","l","s","e","t","s">> :> <<
        [Name |-> <<"R","E","A","D","Y">>,
         JSONPath |-> <<"s","t","a","t","u","s",".","r","e","a","d","y","R","e","p","l","i","c","a","s">>,
         DefaultValue |-> <<"0">>],
        [Name |-> <<"A","G","E">>,
         JSONPath |-> <<"m","e","t","a","d","a","t","a",".","c","r","e","a","t","i","o","n","T","i","m","e","s","t","a","m","p">>,
         DefaultValue |-> <<"<","u","n","k","n","o","w","n",">">>] >> @@
    <<"j","o","b","s">> :> <<
        [Name |-> <<"C","O","M","P","L","E","T","I","O","N","S">>,
         JSONPath |-> <<"s","t","a","t","u","s">>,
         DefaultValue |-> <<"<","n","o","n","e",">">>],
        [Name |-> <<"D","U","R","A","T","I","O","N">>,
         JSONPath |-> <<"s","t","a","t","u","s",".","s","t","a","r","t","T","i","m","e">>,
         DefaultValue |-> <<"<","u","n","k","n","o","w","n",">">>],
        [Name |-> <<"A","G","E">>,
         JSONPath |-> <<"m","e","t","a","d","a","t","a",".","c","r","e","a","t","i","o","n","T","i","m","e","s","t","a","m","p">>,
         DefaultValue |-> <<"<","u","n","k","n","o","w","n",">">>] >> @@
    <<"c","r","o","n","j","o","b","s">> :> <<
        [Name |-> <<"S","C","H","E","D","U","L","E">>,
         JSONPath |-> <<"s","p","e","c",".","s","c","h","e","d","u","l","e">>,
         DefaultValue |-> <<"<","n","o","n","e",">">>],
        [Name |-> <<"S","U","S","P","E","N","D">>,
         JSONPath |-> <<"s","p","e","c",".","s","u","s","p","e","n","d">>,
         DefaultValue |-> <<"F","a","l","s","e">>],
        [Name |-> <<"A","C","T","I","V","E">>,
         JSONPath |-> <<"s","t","a","t","u","s",".","a","c","t","i","v","e">>,
         DefaultValue |-> <<"0">>],
        [Name |-> <<"L","A","S","T"," ","S","C","H","E","D","U","L","E">>,
         JSONPath |-> <<"s","t","a","t","u","s",".","l","a","s","t","S","c","h","e","d","u","l","e","T","i","m","e">>,
         DefaultValue |-> <<"<","n","o","n","e",">">>],
        [Name |-> <<"A","G","E">>,
         JSONPath |-> <<"m","e","t","a","d","a","t","a",".","c","r","e","a","t","i","o","n","T","i","m","e","s","t","a","m","p">>,
         DefaultValue |-> <<"<","u","n","k","n","o","w","n",">">>] >> @@
    <<"c","o","n","f","i","g","m","a","p","s">> :> <<
        [Name |-> <<"D","A","T","A">>,
         JSONPath |-> <<"d","a","t","a">>,
         DefaultValue |-> <<"0">>],
        [Name |-> <<"A","G","E">>,
         JSONPath |-> <<"m","e","t","a","d","a","t","a",".","c","r","e","a","t","i","o","n","T","i","m","e","s","t","a","m","p">>,
         DefaultValue |-> <<"<","u","n","k","n","o","w","n",">">>] >> @@
    <<"s","e","c","r","e","t","s">> :> <<
        [Name |-> <<"T","Y","P","E">>,
         JSONPath |-> <<"t","y","p","e">>,
         DefaultValue |-> <<"O","p","a","q","u","e">>],
        [Name |-> <<"D","A","T","A">>,
         JSONPath |-> <<"d","a","t","a">>,
         DefaultValue |-> <<"0">>],
        [Name |-> <<"A","G","E">>,
         JSONPath |-> <<"m","e","t","a","d","a","t","a",".","c","r","e","a","t","i","o","n","T","i","m","e","s","t","a","m","p">>,
         DefaultValue |-> <<"<","u","n","k","n","o","w","n",">">>] >> @@
    <<"p","e","r","s","i","s","t","e","n","t","v","o","l","u","m","e","s">> :> <<
        [Name |-> <<"C","A","P","A","C","I","T","Y">>,
         JSONPath |-> <<"s","p","e","c",".","c","a","p","a","c","i","t","y">>,
         DefaultValue |-> <<"<","u","n","k","n","o","w","n",">">>],
        [Name |-> <<"A","C","C","E","S","S"," ","M","O","D","E","S">>,
         JSONPath |-> <<"s","p","e","c",".","a","c","c","e","s","s","M","o","d","e","s">>,
         DefaultValue |-> <<"<","u","n","k","n","o","w","n",">">>],
        [Name |-> <<"R","E","C","L","A","I","M"," ","P","O","L","I","C","Y">>,
         JSONPath |-> <<"s","p","e","c",".","p","e","r","s","i","s","t","e","n","t","V","o","l","u","m","e","R","e","c","l","a","i","m","P","o","l","i","c","y">>,
         DefaultValue |-> <<"<","u","n","k","n","o","w","n",">">>],
        [Name |-> <<"S","T","A","T","U","S">>,
         JSONPath |-> <<"s","t","a","t","u","s",".","p","h","a","s","e">>,
         DefaultValue |-> <<"<","u","n","k","n","o","w","n",">">>],
        [Name |-> <<"C","L","A","I","M">>,
         JSONPath |-> <<"s","p","e","c",".","c","l","a","i","m","R","e","f">>,
         DefaultValue |-> <<"<","n","o","n","e",">">>],
        [Name |-> <<"S","T","O","R","A","G","E"," ","C","L","A","S","S">>,
         JSONPath |-> <<"s","p","e","c",".","s","t","o","r","a","g","e","C","l","a","s","s","N","a","m","e">>,
         DefaultValue |-> <<"<","n","o","n","e",">">>],
        [Name |-> <<"R","E","A","S","O","N">>,
         JSONPath |-> <<"s","t","a","t","u","s",".","r","e","a","s","o","n">>,
         DefaultValue |-> <<"<","n","o","n","e",">">>],
        [Name |-> <<"A","G","E">>,
         JSONPath |-> <<"m","e","t","a","d","a","t","a",".","c","r","e","a","t","i","o","n","T","i","m","e","s","t","a","m","p">>,
         DefaultValue |-> <<"<","u","n","k","n","o","w","n",">">>] >> @@
    <<"p","e","r","s","i","s","t","e","n","t","v","o","l","u","m","e","c","l","a","i","m","s">> :> <<
        [Name |-> <<"S","T","A","T","U","S">>,
         JSONPath |-> <<"s","t","a","t","u","s",".","p","h","a","s","e">>,
         DefaultValue |-> <<"<","u","n","k","n","o","w","n",">">>],
        [Name |-> <<"V","O","L","U","M","E">>,
         JSONPath |-> <<"s","p","e","c",".","v","o","l","u","m","e","N","a","m","e">>,
         DefaultValue |-> <<"<","n","o","n","e",">">>],
        [Name |-> <<"C","A","P","A","C","I","T","Y">>,
         JSONPath |-> <<"s","t","a","t","u","s",".","c","a","p","a","c","i","t","y">>,
         DefaultValue |-> <<"<","u","n","k","n","o","w","n",">">>],
        [Name |-> <<"A","C","C","E","S","S"," ","M","O","D","E","S">>,
         JSONPath |-> <<"s","t","a","t","u","s",".","a","c","c","e","s","s","M","o","d","e","s">>,
         DefaultValue |-> <<"<","u","n","k","n","o","w","n",">">>],
        [Name |-> <<"S","T","O","R","A","G","E"," ","C","L","A","S","S">>,
         JSONPath |-> <<"s","p","e","c",".","s","t","o","r","a","g","e","C","l","a","s","s","N","a","m","e">>,
         DefaultValue |-> <<"<","n","o","n","e",">">>],
        [Name |-> <<"A","G","E">>,
         JSONPath |-> <<"m","e","t","a","d","a","t","a",".","c","r","e","a","t","i","o","n","T","i","m","e","s","t","a","m","p">>,
         DefaultValue |-> <<"<","u","n","k","n","o","w","n",">">>] >> @@
    <<"i","n","g","r","e","s","s","e","s">> :> <<
        [Name |-> <<"H","O","S","T","S">>,
         JSONPath |-> <<"s","p","e","c",".","r","u","l","e","s">>,
         DefaultValue |-> <<"<","n","o","n","e",">">>],
        [Name |-> <<"A","D","D","R","E","S","S">>,
         JSONPath |-> <<"s","t","a","t","u","s",".","l","o","a","d","B","a","l","a","n","c","e","r",".","i","n","g","r","e","s","s">>,
         DefaultValue |-> <<"<","n","o","n","e",">">>],
        [Name |-> <<"P","O","R","T","S">>,
         JSONPath |-> <<"s","p","e","c",".","r","u","l","e","s">>,
         DefaultValue |-> <<"<","n","o","n","e",">">>],
        [Name |-> <<"A","G","E">>,
         JSONPath |-> <<"m","e","t","a","d","a","t","a",".","c","r","e","a","t","i","o","n","T","i","m","e","s","t","a","m","p">>,
         DefaultValue |-> <<"<","u","n","k","n","o","w","n",">">>] >> @@
    <<"e","n","d","p","o","i","n","t","s">> :> <<
        [Name |-> <<"E","N","D","P","O","I","N","T","S">>,
         JSONPath |-> <<"s","u","b","s","e","t","s">>,
         DefaultValue |-> <<"<","n","o","n","e",">">>],
        [Name |-> <<"A","G","E">>,
         JSONPath |-> <<"m","e","t","a","d","a","t","a",".","c","r","e","a","t","i","o","n","T","i","m","e","s","t","a","m","p">>,
         DefaultValue |-> <<"<","u","n","k","n","o","w","n",">">>] >> @@
    <<"s","e","r","v","i","c","e","a","c","c","o","u","n","t","s">> :> <<
        [Name |-> <<"S","E","C","R","E","T","S">>,
         JSONPath |-> <<"s","e","c","r","e","t","s">>,
         DefaultValue |-> <<"0">>],
        [Name |-> <<"A","G","E">>,
         JSONPath |-> <<"m","e","t","a","d","a","t","a",".","c","r","e","a","t","i","o","n","T","i","m","e","s","t","a","m","p">>,
         DefaultValue |-> <<"<","u","n","k","n","o","w","n",">">>] >> @@
    <<"r","e","s","o","u","r","c","e","q","u","o","t","a","s">> :> <<
        [Name |-> <<"A","G","E">>,
         JSONPath |-> <<"m","e","t","a","d","a","t","a",".","c","r","e","a","t","i","o","n","T","i","m","e","s","t","a","m","p">>,
         DefaultValue |-> <<"<","u","n","k","n","o","w","n",">">>],
        [Name |-> <<"H","A","R","D">>,
         JSONPath |-> <<"s","t","a","t","u","s",".","h","a","r","d">>,
         DefaultValue |-> <<"<","n","o","n","e",">">>],
        [Name |-> <<"U","S","E","D">>,
         JSONPath |-> <<"s","t","a","t","u","s",".","u","s","e","d">>,
         DefaultValue |-> <<"<","n","o","n","e",">">>] >> @@
    <<"l","i","m","i","t","r","a","n","g","e","s">> :> <<
        [Name |-> <<"C","R","E","A","T","E","D"," ","A","T">>,
         JSONPath |-> <<"m","e","t","a","d","a","t","a",".","c","r","e","a","t","i","o","n","T","i","m","e","s","t","a","m","p">>,
         DefaultValue |-> <<"<","u","n","k","n","o","w","n",">">>] >> @@
    <<"n","e","t","w","o","r","k","p","o","l","i","c","i","e","s">> :> <<
        [Name |-> <<"P","O","D","-","S","E","L","E","C","T","O","R">>,
         JSONPath |-> <<"s","p","e","c",".","p","o","d","S","e","l","e","c","t","o","r">>,
         DefaultValue |-> <<"<","n","o","n","e",">">>],
        [Name |-> <<"P","O","L","I","C","Y","-","T","Y","P","E","S">>,
         JSONPath |-> <<"s","p","e","c",".","p","o","l","i","c","y","T","y","p","e","s">>,
         DefaultValue |-> <<"<","n","o","n","e",">">>],
        [Name |-> <<"A","G","E">>,
         JSONPath |-> <<"m","e","t","a","d","a","t","a",".","c","r","e","a","t","i","o","n","T","i","m","e","s","t","a","m","p">>,
         DefaultValue |-> <<"<","u","n","k","n","o","w","n",">">>] >> @@
    <<"r","o","l","e","s">> :> <<
        [Name |-> <<"C","R","E","A","T","E","D","-","A","T">>,
         JSONPath |-> <<"m","e","t","a","d","a","t","a",".","c","r","e","a","t","i","o","n","T","i","m","e","s","t","a","m","p">>,
         DefaultValue |-> <<"<","u","n","k","n","o","w","n",">">>] >> @@
    <<"s","t","o","r","a","g","e","c","l","a","s","s","e","s">> :> <<
        [Name |-> <<"P","R","O","V","I","S","I","O","N","E","R">>,
         JSONPath |-> <<"p","r","o","v","i","s","i","o","n","e","r">>,
         DefaultValue |-> <<"<","n","o","n","e",">">>],
        [Name |-> <<"R","E","C","L","A","I","M","P","O","L","I","C","Y">>,
         JSONPath |-> <<"r","e","c","l","a","i","m","P","o","l","i","c","y">>,
         DefaultValue |-> <<"D","e","l","e","t","e">>],
        [Name |-> <<"V","O","L","U","M","E","B","I","N","D","I","N","G","M","O","D","E">>,
         JSONPath |-> <<"v","o","l","u","m","e","B","i","n","d","i","n","g","M","o","d","e">>,
         DefaultValue |-> <<"I","m","m","e","d","i","a","t","e">>],
        [Name |-> <<"A","L","L","O","W","V","O","L","U","M","E","E","X","P","A","N","S","I","O","N">>,
         JSONPath |-> <<"a","l","l","o","w","V","o","l","u","m","e","E","x","p","a","n","s","i","o","n">>,
         DefaultValue |-> <<"f","a","l","s","e">>],
        [Name |-> <<"A","G","E">>,
         JSONPath |-> <<"m","e","t","a","d","a","t","a",".","c","r","e","a","t","i","o","n","T","i","m","e","s","t","a","m","p">>,
         DefaultValue |-> <<"<","u","n","k","n","o","w","n",">">>] >> @@
    <<"e","v","e","n","t","s">> :> <<
        [Name |-> <<"L","A","S","T"," ","S","E","E","N">>,
         JSONPath |-> <<"l","a","s","t","T","i","m","e","s","t","a","m","p">>,
         DefaultValue |-> <<"<","u","n","k","n","o","w","n",">">>],
        [Name |-> <<"T","Y","P","E">>,
         JSONPath |-> <<"t","y","p","e">>,
         DefaultValue |-> <<"<","u","n","k","n","o","w","n",">">>],
        [Name |-> <<"R","E","A","S","O","N">>,
         JSONPath |-> <<"r","e","a","s","o","n">>,
         DefaultValue |-> <<"<","u","n","k","n","o","w","n",">">>],
        [Name |-> <<"O","B","J","E","C","T">>,
         JSONPath |-> <<>>,
         DefaultValue |-> <<"<","u","n","k","n","o","w","n",">">>],
        [Name |-> <<"M","E","S","S","A","G","E">>,
         JSONPath |-> <<"m","e","s","s","a","g","e">>,
         DefaultValue |-> <<"<","u","n","k","n","o","w","n",">">>] >>

GetResourceColumnsExact(resourceType) ==
    IF resourceType \in DOMAIN columns
    THEN columns[resourceType]
    ELSE << [Name |-> <<"A","G","E">>,
             JSONPath |-> <<"m","e","t","a","d","a","t","a",".","c","r","e","a","t","i","o","n","T","i","m","e","s","t","a","m","p">>,
             DefaultValue |-> <<"<","u","n","k","n","o","w","n",">">>] >>

GetResourceColumns(resourceType) ==
    IF ToLower(resourceType) \in DOMAIN columns
    THEN columns[ToLower(resourceType)]
    ELSE << [Name |-> <<"A","G","E">>,
             JSONPath |-> <<"m","e","t","a","d","a","t","a",".","c","r","e","a","t","i","o","n","T","i","m","e","s","t","a","m","p">>,
             DefaultValue |-> <<"<","u","n","k","n","o","w","n",">">>] >>

----------------------------------------------------------------------------
(* Records: decoded JSON trees (unstructured.Unstructured.Object).          *)
(* A value is the pair of its Go dynamic type and its content.             *)

NilVal == <<"nil", <<>> >>
StringVal(s) == <<"string", s>>
Int64Val(n) == <<"int64", n>>
Float64Val(n) == <<"float64", n>>
BoolVal(b) == <<"bool", b>>
SliceVal(xs) == <<"slice", xs>>
MapVal(m) == <<"map", m>>
TypeOf(val) == val[1]
ValueOf(val) == val[2]
EmptyRecord == MapVal(<<>>)

\* unstructured.NestedFieldNoCopy from field i on: a nil value or a missing
\* key is "not found", a value that is no map while fields remain is an
\* error
RECURSIVE nestedField(_, _, _)
nestedField(val, fields, i) ==
    IF i > Len(fields)
    THEN [val |-> val, found |-> TRUE, err |-> FALSE]
    ELSE IF TypeOf(val) = "nil"
    THEN [val |-> NilVal, found |-> FALSE, err |-> FALSE]
    ELSE IF TypeOf(val) = "map"
    THEN IF fields[i] \in DOMAIN ValueOf(val)
         THEN nestedField(ValueOf(val)[fields[i]], fields, i + 1)
         ELSE [val |-> NilVal, found |-> FALSE, err |-> FALSE]
    ELSE [val |-> NilVal, found |-> FALSE, err |-> TRUE]

NestedFieldNoCopy(obj, fields) == nestedField(obj, fields, 1)

\* the typed accessors: the value found must have the Go type asked for,
\* otherwise the zero value, found = false and an error
nestedTyped(obj, fields, type, zero) ==
    LET r == NestedFieldNoCopy(obj, fields)
    IN  IF ~r.found \/ r.err
        THEN [val |-> zero, found |-> r.found, err |-> r.err]
        ELSE IF TypeOf(r.val) # type
        THEN [val |-> zero, found |-> FALSE, err |-> TRUE]
        ELSE [val |-> ValueOf(r.val), found |-> TRUE, err |-> FALSE]

NestedString(obj, fields) == nestedTyped(obj, fields, "string", <<>>)
NestedInt64(obj, fields) == nestedTyped(obj, fields, "int64", 0)
NestedBool(obj, fields) == nestedTyped(obj, fields, "bool", FALSE)
NestedSlice(obj, fields) == nestedTyped(obj, fields, "slice", <<>>)
NestedMap(obj, fields) == nestedTyped(obj, fields, "map", <<>>)

\* unstructured.NestedStringSlice: every element must be a string
NestedStringSlice(obj, fields) ==
    LET r == NestedSlice(obj, fields)
    IN  IF ~r.found
        THEN r
        ELSE IF \E i \in DOMAIN r.val : TypeOf(r.val[i]) # "string"
        THEN [val |-> <<>>, found |-> FALSE, err |-> TRUE]
        ELSE [val |-> [i \in DOMAIN r.val |-> ValueOf(r.val[i])],
              found |-> TRUE, err |-> FALSE]

----------------------------------------------------------------------------
(* Formatting primitives.                                                  *)

Digits == <<"0","1","2","3","4","5","6","7","8","9">>

\* the decimal digits of a natural number
RECURSIVE natString(_)
natString(n) ==
    IF n < 10
    THEN <<Digits[n + 1]>>
    ELSE Append(natString(n \div 10), Digits[(n % 10) + 1])

\* fmt.Sprintf("%d", n)
Itoa(n) == IF n < 0 THEN <<"-">> \o natString(0 - n) ELSE natString(n)

\* fmt.Sprintf("%t", b)
FormatBool(b) == IF b THEN <<"t","r","u","e">> ELSE <<"f","a","l","s","e">>

\* the concatenation of a sequence of sequences
RECURSIVE Flatten(_)
Flatten(ss) == IF ss = <<>> THEN <<>> ELSE Head(ss) \o Flatten(Tail(ss))

\* strings.Join
RECURSIVE Join(_, _)
Join(elems, sep) ==
    IF elems = <<>>
    THEN <<>>
    ELSE IF Len(elems) = 1
    THEN elems[1]
    ELSE elems[1] \o sep \o Join(Tail(elems), sep)

\* strings.Split(s, sep) for a one-character separator: the pieces between
\* the separators, empty pieces included
RECURSIVE Split(_, _)
Split(s, sep) ==
    IF \A i \in DOMAIN s : s[i] # sep
    THEN <<s>>
    ELSE <<SubSeq(s, 1, Index(s, sep) - 1)>>
             \o Split(SubSeq(s, Index(s, sep) + 1, Len(s)), sep)

----------------------------------------------------------------------------
(* Time. Instants are whole seconds since the Unix epoch; timestamps are   *)
(* RFC 3339 strings in UTC with whole seconds, "YYYY-MM-DDTHH:MM:SSZ";     *)
(* every other string of the model is one time.Parse rejects.              *)

IsDigit(c) == \E i \in DOMAIN Digits : Digits[i] = c

DigitValue(c) == (CHOOSE i \in DOMAIN Digits : Digits[i] = c) - 1

\* the number written by the digits s[from..to]
RECURSIVE Number(_, _, _)
Number(s, from, to) ==
    IF to < from
    THEN 0
    ELSE 10 * Number(s, from, to - 1) + DigitValue(s[to])

IsLeapYear(y) == y % 4 = 0 /\ (y % 100 # 0 \/ y % 400 = 0)

DaysIn(month, year) ==
    IF month = 2
    THEN IF IsLeapYear(year) THEN 29 ELSE 28
    ELSE IF month \in {4, 6, 9, 11} THEN 30 ELSE 31

\* days from 1970-01-01 to the civil date
DaysFromCivil(year, month, day) ==
    LET y   == IF month <= 2 THEN year - 1 ELSE year
        era == y \div 400
        yoe == y - era * 400
        mp  == (month + 9) % 12
        doy == (153 * mp + 2) \div 5 + day - 1
        doe == yoe * 365 + yoe \div 4 - yoe \div 100 + doy
    IN  era * 146097 + doe - 719468

\* time.Parse(time.RFC3339, s)
ParseRFC3339(s) ==
    IF /\ Len(s) = 20
       /\ s[5] = "-" /\ s[8] = "-" /\ s[11] = "T"
       /\ s[14] = ":" /\ s[17] = ":" /\ s[20] = "Z"
       /\ \A i \in (1..19) \ {5, 8, 11, 14, 17} : IsDigit(s[i])
    THEN LET year   == Number(s, 1, 4)
             month  == Number(s, 6, 7)
             day    == Number(s, 9, 10)
             hour   == Number(s, 12, 13)
             minute == Number(s, 15, 16)
             second == Number(s, 18, 19)
         IN  IF /\ month \in 1..12
                /\ day \in 1..DaysIn(month, year)
                /\ hour <= 23 /\ minute <= 59 /\ second <= 59
             THEN [err |-> FALSE,
                   unix |-> DaysFromCivil(year, month, day) * 86400
                                + hour * 3600 + minute * 60 + second]
             ELSE [err |-> TRUE, unix |-> 0]
    ELSE [err |-> TRUE, unix |-> 0]

\* time.Duration.String of a duration of d whole seconds
DurationString(d) ==
    LET a == IF d < 0 THEN 0 - d ELSE d
        h == a \div 3600
        m == (a % 3600) \div 60
        s == a % 60
        sign == IF d < 0 THEN <<"-">> ELSE <<>>
    IN  IF a = 0
        THEN <<"0","s">>
        ELSE IF h > 0
        THEN sign \o Itoa(h) \o <<"h">> \o Itoa(m) \o <<"m">> \o Itoa(s) \o <<"s">>
        ELSE IF m > 0
        THEN sign \o Itoa(m) \o <<"m">> \o Itoa(s) \o <<"s">>
        ELSE sign \o Itoa(s) \o <<"s">>

----------------------------------------------------------------------------
(* Field extraction engine: the specialized extractors.                    *)

\* a map value holding key k
HasKey(val, k) == TypeOf(val) = "map" /\ k \in DOMAIN ValueOf(val)

\* counts every entry that has a "ready" key, whatever it holds
extractReadyValueAnyReadyKey(obj) ==
    LET containerStatuses ==
            NestedSlice(obj, << <<"s","t","a","t","u","s">>, <<"c","o","n","t","a","i","n","e","r","S","t","a","t","u","s","e","s">> >>)
        readyCount ==
            Cardinality({i \in DOMAIN containerStatuses.val :
                            HasKey(containerStatuses.val[i], <<"r","e","a","d","y">>)})
    IN  IF ~containerStatuses.found
        THEN <<"0","/","0">>
        ELSE Itoa(readyCount) \o <<"/">> \o Itoa(Len(containerStatuses.val))

extractReadyValue(obj) ==
    LET containerStatuses ==
            NestedSlice(obj, << <<"s","t","a","t","u","s">>, <<"c","o","n","t","a","i","n","e","r","S","t","a","t","u","s","e","s">> >>)
        isReady(status) ==
            /\ HasKey(status, <<"r","e","a","d","y">>)
            /\ TypeOf(ValueOf(status)[<<"r","e","a","d","y">>]) = "bool"
            /\ ValueOf(ValueOf(status)[<<"r","e","a","d","y">>])
        readyCount ==
            Cardinality({i \in DOMAIN containerStatuses.val :
                            isReady(containerStatuses.val[i])})
        totalCount == Len(containerStatuses.val)
    IN  IF ~containerStatuses.found
        THEN <<"0","/","0">>
        ELSE Itoa(readyCount) \o <<"/">> \o Itoa(totalCount)

extractStatusValue(obj) ==
    LET phase == NestedString(obj, << <<"s","t","a","t","u","s">>, <<"p","h","a","s","e">> >>)
    IN  IF ~phase.found THEN <<"<","u","n","k","n","o","w","n",">">> ELSE phase.val

\* the sum of the numbers of a sequence
RECURSIVE Sum(_)
Sum(ns) == IF ns = <<>> THEN 0 ELSE Head(ns) + Sum(Tail(ns))

\* renders the restart count of the last entry instead of the sum
extractRestartsValueLastEntry(obj) ==
    LET containerStatuses ==
            NestedSlice(obj, << <<"s","t","a","t","u","s">>, <<"c","o","n","t","a","i","n","e","r","S","t","a","t","u","s","e","s">> >>)
        n == Len(containerStatuses.val)
        last == containerStatuses.val[n]
    IN  IF ~containerStatuses.found
        THEN <<"0">>
        ELSE IF n > 0 /\ HasKey(last, <<"r","e","s","t","a","r","t","C","o","u","n","t">>)
                /\ TypeOf(ValueOf(last)[<<"r","e","s","t","a","r","t","C","o","u","n","t">>]) = "int64"
        THEN Itoa(ValueOf(ValueOf(last)[<<"r","e","s","t","a","r","t","C","o","u","n","t">>]))
        ELSE <<"0">>

extractRestartsValue(obj) ==
    LET containerStatuses ==
            NestedSlice(obj, << <<"s","t","a","t","u","s">>, <<"c","o","n","t","a","i","n","e","r","S","t","a","t","u","s","e","s">> >>)
        count(status) ==
            IF /\ HasKey(status, <<"r","e","s","t","a","r","t","C","o","u","n","t">>)
               /\ TypeOf(ValueOf(status)[<<"r","e","s","t","a","r","t","C","o","u","n","t">>]) = "int64"
            THEN ValueOf(ValueOf(status)[<<"r","e","s","t","a","r","t","C","o","u","n","t">>])
            ELSE 0
        totalRestarts ==
            Sum([i \in DOMAIN containerStatuses.val |->
                    count(containerStatuses.val[i])])
    IN  IF ~containerStatuses.found
        THEN <<"0">>
        ELSE Itoa(totalRestarts)

extractTypeValue(obj) ==
    LET svcType == NestedString(obj, << <<"s","p","e","c">>, <<"t","y","p","e">> >>)
    IN  IF ~svcType.found THEN <<"C","l","u","s","t","e","r","I","P">> ELSE svcType.val

extractClusterIPValue(obj) ==
    LET clusterIP == NestedString(obj, << <<"s","p","e","c">>, <<"c","l","u","s","t","e","r","I","P">> >>)
    IN  IF ~clusterIP.found THEN <<"<","n","o","n","e",">">> ELSE clusterIP.val

extractExternalIPValue(obj) ==
    LET ingress ==
            NestedSlice(obj, << <<"s","t","a","t","u","s">>, <<"l","o","a","d","B","a","l","a","n","c","e","r">>, <<"i","n","g","r","e","s","s">> >>)
        pick(ing) ==
            IF TypeOf(ing) # "map"
            THEN <<>>
            ELSE IF <<"i","p">> \in DOMAIN ValueOf(ing)
            THEN IF TypeOf(ValueOf(ing)[<<"i","p">>]) = "string"
                 THEN <<ValueOf(ValueOf(ing)[<<"i","p">>])>>
                 ELSE <<>>
            ELSE IF <<"h","o","s","t","n","a","m","e">> \in DOMAIN ValueOf(ing)
                    /\ TypeOf(ValueOf(ing)[<<"h","o","s","t","n","a","m","e">>]) = "string"
            THEN <<ValueOf(ValueOf(ing)[<<"h","o","s","t","n","a","m","e">>])>>
            ELSE <<>>
        ips == Flatten([i \in DOMAIN ingress.val |-> pick(ingress.val[i])])
    IN  IF ~ingress.found \/ Len(ingress.val) = 0
        THEN <<"<","n","o","n","e",">">>
        ELSE IF Len(ips) > 0
        THEN Join(ips, <<",">>)
        ELSE <<"<","p","e","n","d","i","n","g",">">>

\* the decimal renderings of the int64 "port" fields of a port list
portNumbers(ports) ==
    LET pick(port) ==
            IF /\ HasKey(port, <<"p","o","r","t">>)
               /\ TypeOf(ValueOf(port)[<<"p","o","r","t">>]) = "int64"
            THEN <<ValueOf(ValueOf(port)[<<"p","o","r","t">>])>>
            ELSE <<>>
    IN  Flatten([i \in DOMAIN ports |-> pick(ports[i])])

extractPortsValue(obj) ==
    LET ports == NestedSlice(obj, << <<"s","p","e","c">>, <<"p","o","r","t","s">> >>)
        nums == portNumbers(ports.val)
        portStrings == [i \in DOMAIN nums |-> Itoa(nums[i])]
    IN  IF ~ports.found \/ Len(ports.val) = 0
        THEN <<"<","n","o","n","e",">">>
        ELSE Join(portStrings, <<",">>)

\* the shape shared by the integer columns: "0" when the field is not an
\* int64, its decimal rendering otherwise
int64OrZero(obj, fields) ==
    LET n == NestedInt64(obj, fields)
    IN  IF ~n.found THEN <<"0">> ELSE Itoa(n.val)

extractUpToDateValue(obj) ==
    int64OrZero(obj, << <<"s","t","a","t","u","s">>, <<"u","p","d","a","t","e","d","R","e","p","l","i","c","a","s">> >>)

extractAvailableValue(obj) ==
    int64OrZero(obj, << <<"s","t","a","t","u","s">>, <<"a","v","a","i","l","a","b","l","e","R","e","p","l","i","c","a","s">> >>)

extractDesiredValue(obj) ==
    int64OrZero(obj, << <<"s","p","e","c">>, <<"r","e","p","l","i","c","a","s">> >>)

extractCurrentValue(obj) ==
    int64OrZero(obj, << <<"s","t","a","t","u","s">>, <<"r","e","p","l","i","c","a","s">> >>)

extractCompletionsValue(obj) ==
    LET succeeded == NestedInt64(obj, << <<"s","t","a","t","u","s">>, <<"s","u","c","c","e","e","d","e","d">> >>)
        completions == NestedInt64(obj, << <<"s","p","e","c">>, <<"c","o","m","p","l","e","t","i","o","n","s">> >>)
    IN  IF ~succeeded.found
        THEN <<"<","n","o","n","e",">">>
        ELSE IF ~completions.found
        THEN Itoa(succeeded.val) \o <<"/","1">>
        ELSE Itoa(succeeded.val) \o <<"/">> \o Itoa(completions.val)

\* now: the instant time.Now() returns
\* measures up to the clock even when the completion time is there
extractDurationValueUpToNow(obj, now) ==
    LET startTime == NestedString(obj, << <<"s","t","a","t","u","s">>, <<"s","t","a","r","t","T","i","m","e">> >>)
        start == ParseRFC3339(startTime.val)
    IN  IF ~startTime.found \/ start.err
        THEN <<"<","u","n","k","n","o","w","n",">">>
        ELSE DurationString(now - start.unix)

extractDurationValue(obj, now) ==
    LET startTime == NestedString(obj, << <<"s","t","a","t","u","s">>, <<"s","t","a","r","t","T","i","m","e">> >>)
        completionTime ==
            NestedString(obj, << <<"s","t","a","t","u","s">>, <<"c","o","m","p","l","e","t","i","o","n","T","i","m","e">> >>)
        start == ParseRFC3339(startTime.val)
        completion == ParseRFC3339(completionTime.val)
    IN  IF ~startTime.found
        THEN <<"<","u","n","k","n","o","w","n",">">>
        ELSE IF start.err
        THEN <<"<","u","n","k","n","o","w","n",">">>
        ELSE IF completionTime.found
        THEN IF completion.err
             THEN <<"<","u","n","k","n","o","w","n",">">>
             ELSE DurationString(completion.unix - start.unix)
        ELSE DurationString(now - start.unix)

extractDataCountValue(obj) ==
    LET data == NestedMap(obj, << <<"d","a","t","a">> >>)
        binaryData == NestedMap(obj, << <<"b","i","n","a","r","y","D","a","t","a">> >>)
        count == (IF data.found THEN Cardinality(DOMAIN data.val) ELSE 0)
                 + (IF binaryData.found
                    THEN Cardinality(DOMAIN binaryData.val) ELSE 0)
    IN  Itoa(count)

\* Go's range over a map visits the keys in an order the runtime picks:
\* the keys of S in the order they have in order, then any others
RECURSIVE RangeOrder(_, _)
RangeOrder(S, order) ==
    IF S = {}
    THEN <<>>
    ELSE IF \E i \in DOMAIN order : order[i] \in S
    THEN LET i == CHOOSE i \in DOMAIN order :
                    order[i] \in S /\ \A j \in 1..(i - 1) : order[j] \notin S
         IN  <<order[i]>> \o RangeOrder(S \ {order[i]}, order)
    ELSE LET k == CHOOSE k \in S : TRUE
         IN  <<k>> \o RangeOrder(S \ {k}, order)

\* a quantity held as a string, or as a map with a string under "string"
quantityString(v) ==
    IF TypeOf(v) = "string"
    THEN <<ValueOf(v)>>
    ELSE IF HasKey(v, <<"s","t","r","i","n","g">>) /\ TypeOf(ValueOf(v)[<<"s","t","r","i","n","g">>]) = "string"
    THEN <<ValueOf(ValueOf(v)[<<"s","t","r","i","n","g">>])>>
    ELSE <<>>

extractCapacityValue(obj, order) ==
    LET specCapacity == NestedMap(obj, << <<"s","p","e","c">>, <<"c","a","p","a","c","i","t","y">> >>)
        capacity ==
            IF ~specCapacity.found
            THEN NestedMap(obj, << <<"s","t","a","t","u","s">>, <<"c","a","p","a","c","i","t","y">> >>)
            ELSE specCapacity
        keys == RangeOrder(DOMAIN capacity.val, order)
        vals == Flatten([i \in DOMAIN keys |->
                            quantityString(capacity.val[keys[i]])])
    IN  IF ~capacity.found \/ Cardinality(DOMAIN capacity.val) = 0
        THEN <<"<","u","n","k","n","o","w","n",">">>
        ELSE IF Len(vals) > 0
        THEN vals[1]
        ELSE <<"<","u","n","k","n","o","w","n",">">>

extractAccessModesValue(obj) ==
    LET specModes == NestedStringSlice(obj, << <<"s","p","e","c">>, <<"a","c","c","e","s","s","M","o","d","e","s">> >>)
        modes ==
            IF ~specModes.found
            THEN NestedStringSlice(obj, << <<"s","t","a","t","u","s">>, <<"a","c","c","e","s","s","M","o","d","e","s">> >>)
            ELSE specModes
    IN  IF ~modes.found \/ Len(modes.val) = 0
        THEN <<"<","u","n","k","n","o","w","n",">">>
        ELSE Join(modes.val, <<",">>)

extractClaimValue(obj) ==
    LET claimRef == NestedMap(obj, << <<"s","p","e","c">>, <<"c","l","a","i","m","R","e","f">> >>)
        name == NestedString(MapVal(claimRef.val), << <<"n","a","m","e">> >>)
        namespace == NestedString(MapVal(claimRef.val), << <<"n","a","m","e","s","p","a","c","e">> >>)
    IN  IF ~claimRef.found
        THEN <<"<","n","o","n","e",">">>
        ELSE IF name.found /\ namespace.found
        THEN namespace.val \o <<"/">> \o name.val
        ELSE IF name.found
        THEN name.val
        ELSE <<"<","n","o","n","e",">">>

extractStorageClassValue(obj) ==
    LET sc == NestedString(obj, << <<"s","p","e","c">>, <<"s","t","o","r","a","g","e","C","l","a","s","s","N","a","m","e">> >>)
    IN  IF ~sc.found THEN <<"<","n","o","n","e",">">> ELSE sc.val

extractHostsValue(obj) ==
    LET rules == NestedSlice(obj, << <<"s","p","e","c">>, <<"r","u","l","e","s">> >>)
        pick(rule) ==
            IF /\ HasKey(rule, <<"h","o","s","t">>)
               /\ TypeOf(ValueOf(rule)[<<"h","o","s","t">>]) = "string"
               /\ ValueOf(ValueOf(rule)[<<"h","o","s","t">>]) # <<>>
            THEN <<ValueOf(ValueOf(rule)[<<"h","o","s","t">>])>>
            ELSE <<>>
        hosts == Flatten([i \in DOMAIN rules.val |-> pick(rules.val[i])])
    IN  IF ~rules.found \/ Len(rules.val) = 0
        THEN <<"<","n","o","n","e",">">>
        ELSE IF Len(hosts) > 0
        THEN Join(hosts, <<",">>)
        ELSE <<"<","n","o","n","e",">">>

extractAddressValue(obj) == extractExternalIPValue(obj)

extractIngressPortsValue(obj, order) ==
    LET rules == NestedSlice(obj, << <<"s","p","e","c">>, <<"r","u","l","e","s">> >>)
        hasPaths(rule) ==
            /\ HasKey(rule, <<"h","t","t","p">>)
            /\ HasKey(ValueOf(rule)[<<"h","t","t","p">>], <<"p","a","t","h","s">>)
            /\ TypeOf(ValueOf(ValueOf(rule)[<<"h","t","t","p">>])[<<"p","a","t","h","s">>]) = "slice"
            /\ Len(ValueOf(ValueOf(ValueOf(rule)[<<"h","t","t","p">>])[<<"p","a","t","h","s">>])) > 0
        tls == NestedSlice(obj, << <<"s","p","e","c">>, <<"t","l","s">> >>)
        portSet ==
            (IF \E i \in DOMAIN rules.val : hasPaths(rules.val[i])
             THEN { <<"8","0">> } ELSE {})
            \cup (IF tls.found /\ Len(tls.val) > 0 THEN { <<"4","4","3">> } ELSE {})
    IN  IF ~rules.found \/ Len(rules.val) = 0
        THEN <<"<","n","o","n","e",">">>
        ELSE IF portSet # {}
        THEN Join(RangeOrder(portSet, order), <<",">>)
        ELSE <<"<","n","o","n","e",">">>

\* pairs every address with every port of every subset
extractEndpointsValueAcrossSubsets(obj) ==
    LET subsets == NestedSlice(obj, << <<"s","u","b","s","e","t","s">> >>)
        listAt(subset, k) ==
            IF TypeOf(subset) # "map"
            THEN <<>>
            ELSE LET l == NestedSlice(subset, <<k>>)
                 IN  IF l.found THEN l.val ELSE <<>>
        addresses == Flatten([i \in DOMAIN subsets.val |->
                                listAt(subsets.val[i], <<"a","d","d","r","e","s","s","e","s">>)])
        ports == Flatten([i \in DOMAIN subsets.val |->
                            listAt(subsets.val[i], <<"p","o","r","t","s">>)])
        ofAddress(addr) ==
            IF /\ HasKey(addr, <<"i","p">>)
               /\ TypeOf(ValueOf(addr)[<<"i","p">>]) = "string"
            THEN LET nums == portNumbers(ports)
                 IN  [i \in DOMAIN nums |->
                        ValueOf(ValueOf(addr)[<<"i","p">>]) \o <<":">> \o Itoa(nums[i])]
            ELSE <<>>
        endpoints == Flatten([i \in DOMAIN addresses |-> ofAddress(addresses[i])])
    IN  IF ~subsets.found \/ Len(subsets.val) = 0
        THEN <<"<","n","o","n","e",">">>
        ELSE IF Len(endpoints) > 0
        THEN Join(endpoints, <<",">>)
        ELSE <<"<","n","o","n","e",">">>

extractEndpointsValue(obj) ==
    LET subsets == NestedSlice(obj, << <<"s","u","b","s","e","t","s">> >>)
        ofAddress(addr, ports) ==
            IF /\ HasKey(addr, <<"i","p">>)
               /\ TypeOf(ValueOf(addr)[<<"i","p">>]) = "string"
            THEN LET nums == portNumbers(ports)
                 IN  [i \in DOMAIN nums |->
                        ValueOf(ValueOf(addr)[<<"i","p">>]) \o <<":">> \o Itoa(nums[i])]
            ELSE <<>>
        ofSubset(subset) ==
            IF TypeOf(subset) # "map"
            THEN <<>>
            ELSE LET addresses == NestedSlice(subset, << <<"a","d","d","r","e","s","s","e","s">> >>)
                     ports == NestedSlice(subset, << <<"p","o","r","t","s">> >>)
                 IN  IF /\ addresses.found /\ ports.found
                        /\ Len(addresses.val) > 0 /\ Len(ports.val) > 0
                     THEN Flatten([i \in DOMAIN addresses.val |->
                                     ofAddress(addresses.val[i], ports.val)])
                     ELSE <<>>
        endpoints ==
            Flatten([i \in DOMAIN subsets.val |-> ofSubset(subsets.val[i])])
    IN  IF ~subsets.found \/ Len(subsets.val) = 0
        THEN <<"<","n","o","n","e",">">>
        ELSE IF Len(endpoints) > 0
        THEN Join(endpoints, <<",">>)
        ELSE <<"<","n","o","n","e",">">>

extractSecretsValue(obj) ==
    LET secrets == NestedSlice(obj, << <<"s","e","c","r","e","t","s">> >>)
    IN  IF ~secrets.found THEN <<"0">> ELSE Itoa(Len(secrets.val))

formatResourceLimits(limits, found, order) ==
    LET keys == RangeOrder(DOMAIN limits, order)
        part(key) ==
            LET q == quantityString(limits[key])
            IN  IF q = <<>> THEN <<>> ELSE <<key \o <<":">> \o q[1]>>
        parts == Flatten([i \in DOMAIN keys |-> part(keys[i])])
    IN  IF ~found \/ Cardinality(DOMAIN limits) = 0
        THEN <<"<","n","o","n","e",">">>
        ELSE IF Len(parts) > 0
        THEN Join(parts, <<",">>)
        ELSE <<"<","n","o","n","e",">">>

extractHardValue(obj, order) ==
    LET hard == NestedMap(obj, << <<"s","t","a","t","u","s">>, <<"h","a","r","d">> >>)
    IN  formatResourceLimits(hard.val, hard.found, order)

extractUsedValue(obj, order) ==
    LET used == NestedMap(obj, << <<"s","t","a","t","u","s">>, <<"u","s","e","d">> >>)
    IN  formatResourceLimits(used.val, used.found, order)

\* the "key=value" pairs of the string-valued entries of a selector map,
\* in range order, comma-joined; "<none>" when there is none
selectorString(selector, order) ==
    LET keys == RangeOrder(DOMAIN selector.val, order)
        pair(k) ==
            IF TypeOf(selector.val[k]) = "string"
            THEN <<k \o <<"=">> \o ValueOf(selector.val[k])>>
            ELSE <<>>
        labels == Flatten([i \in DOMAIN keys |-> pair(keys[i])])
    IN  IF ~selector.found \/ Cardinality(DOMAIN selector.val) = 0
        THEN <<"<","n","o","n","e",">">>
        ELSE IF Len(labels) > 0
        THEN Join(labels, <<",">>)
        ELSE <<"<","n","o","n","e",">">>

extractPodSelectorValue(obj, order) ==
    selectorString(
        NestedMap(obj, << <<"s","p","e","c">>, <<"p","o","d","S","e","l","e","c","t","o","r">>, <<"m","a","t","c","h","L","a","b","e","l","s">> >>), order)

extractPolicyTypesValue(obj) ==
    LET types == NestedStringSlice(obj, << <<"s","p","e","c">>, <<"p","o","l","i","c","y","T","y","p","e","s">> >>)
    IN  IF ~types.found \/ Len(types.val) = 0
        THEN <<"<","n","o","n","e",">">>
        ELSE Join(types.val, <<",">>)

extractLastSeenValue(obj, now) ==
    LET lastTimestamp == NestedString(obj, << <<"l","a","s","t","T","i","m","e","s","t","a","m","p">> >>)
        firstTimestamp == NestedString(obj, << <<"f","i","r","s","t","T","i","m","e","s","t","a","m","p">> >>)
        timestamp ==
            IF lastTimestamp.found
            THEN lastTimestamp.val
            ELSE firstTimestamp.val
        t == ParseRFC3339(timestamp)
    IN  IF ~lastTimestamp.found /\ ~firstTimestamp.found
        THEN <<"<","u","n","k","n","o","w","n",">">>
        ELSE IF t.err
        THEN <<"<","u","n","k","n","o","w","n",">">>
        ELSE DurationString(now - t.unix) \o <<" ","a","g","o">>

extractObjectValue(obj) ==
    LET kind == NestedString(obj, << <<"i","n","v","o","l","v","e","d","O","b","j","e","c","t">>, <<"k","i","n","d">> >>)
        name == NestedString(obj, << <<"i","n","v","o","l","v","e","d","O","b","j","e","c","t">>, <<"n","a","m","e">> >>)
    IN  IF kind.found /\ name.found
        THEN kind.val \o <<"/">> \o name.val
        ELSE <<"<","u","n","k","n","o","w","n",">">>

extractNodeSelectorValue(obj, order) ==
    selectorString(
        NestedMap(obj, << <<"s","p","e","c">>, <<"t","e","m","p","l","a","t","e">>, <<"s","p","e","c">>, <<"n","o","d","e","S","e","l","e","c","t","o","r">> >>),
        order)

extractAllowVolumeExpansionValue(obj) ==
    LET allow == NestedBool(obj, << <<"a","l","l","o","w","V","o","l","u","m","e","E","x","p","a","n","s","i","o","n">> >>)
    IN  IF ~allow.found THEN <<"f","a","l","s","e">> ELSE FormatBool(allow.val)

extractScheduleValue(obj) ==
    LET schedule == NestedString(obj, << <<"s","p","e","c">>, <<"s","c","h","e","d","u","l","e">> >>)
    IN  IF ~schedule.found THEN <<"<","n","o","n","e",">">> ELSE schedule.val

extractSuspendValue(obj) ==
    LET suspend == NestedBool(obj, << <<"s","p","e","c">>, <<"s","u","s","p","e","n","d">> >>)
    IN  IF ~suspend.found THEN <<"F","a","l","s","e">> ELSE FormatBool(suspend.val)

extractActiveValue(obj) ==
    LET active == NestedSlice(obj, << <<"s","t","a","t","u","s">>, <<"a","c","t","i","v","e">> >>)
    IN  IF ~active.found THEN <<"0">> ELSE Itoa(Len(active.val))

extractLastScheduleValue(obj, now) ==
    LET lastSchedule ==
            NestedString(obj, << <<"s","t","a","t","u","s">>, <<"l","a","s","t","S","c","h","e","d","u","l","e","T","i","m","e">> >>)
        t == ParseRFC3339(lastSchedule.val)
    IN  IF ~lastSchedule.found
        THEN <<"<","n","o","n","e",">">>
        ELSE IF t.err
        THEN <<"<","n","o","n","e",">">>
        ELSE DurationString(now - t.unix) \o <<" ","a","g","o">>

extractCreatedAtValue(obj, now) ==
    LET created ==
            NestedString(obj, << <<"m","e","t","a","d","a","t","a">>, <<"c","r","e","a","t","i","o","n","T","i","m","e","s","t","a","m","p">> >>)
        t == ParseRFC3339(created.val)
    IN  IF ~created.found
        THEN <<"<","u","n","k","n","o","w","n",">">>
        ELSE IF t.err
        THEN <<"<","u","n","k","n","o","w","n",">">>
        ELSE DurationString(now - t.unix)

----------------------------------------------------------------------------
(* Field extraction engine: dispatch.                                      *)

\* the traversal with the error of NestedString ignored: a leaf that is
\* no string gives the zero string
extractAtPathIgnoringErr(obj, column) ==
    LET r == NestedString(obj, Split(column.JSONPath, "."))
    IN  IF r.err THEN r.val
        ELSE IF ~r.found THEN column.DefaultValue ELSE r.val

\* the generic extraction at the column's path
extractAtPath(obj, column) ==
    LET r == NestedString(obj, Split(column.JSONPath, "."))
    IN  IF r.err \/ ~r.found THEN column.DefaultValue ELSE r.val

\* now: what time.Now() returns during the call; order: the order in which
\* the call's range loops visit map keys
dispatchByName(obj, column, now, order) ==
         CASE column.Name = <<"R","E","A","D","Y">> -> extractReadyValue(obj)
           [] column.Name = <<"S","T","A","T","U","S">> -> extractStatusValue(obj)
           [] column.Name = <<"R","E","S","T","A","R","T","S">> -> extractRestartsValue(obj)
           [] column.Name = <<"T","Y","P","E">> -> extractTypeValue(obj)
           [] column.Name = <<"C","L","U","S","T","E","R","-","I","P">> -> extractClusterIPValue(obj)
           [] column.Name = <<"E","X","T","E","R","N","A","L","-","I","P">> -> extractExternalIPValue(obj)
           [] column.Name = <<"P","O","R","T","(","S",")">> -> extractPortsValue(obj)
           [] column.Name = <<"U","P","-","T","O","-","D","A","T","E">> -> extractUpToDateValue(obj)
           [] column.Name = <<"A","V","A","I","L","A","B","L","E">> -> extractAvailableValue(obj)
           [] column.Name = <<"D","E","S","I","R","E","D">> -> extractDesiredValue(obj)
           [] column.Name = <<"C","U","R","R","E","N","T">> -> extractCurrentValue(obj)
           [] column.Name = <<"C","O","M","P","L","E","T","I","O","N","S">> -> extractCompletionsValue(obj)
           [] column.Name = <<"D","U","R","A","T","I","O","N">> -> extractDurationValue(obj, now)
           [] column.Name = <<"D","A","T","A">> -> extractDataCountValue(obj)
           [] column.Name = <<"C","A","P","A","C","I","T","Y">> -> extractCapacityValue(obj, order)
           [] column.Name = <<"A","C","C","E","S","S"," ","M","O","D","E","S">> -> extractAccessModesValue(obj)
           [] column.Name = <<"C","L","A","I","M">> -> extractClaimValue(obj)
           [] column.Name = <<"S","T","O","R","A","G","E"," ","C","L","A","S","S">> -> extractStorageClassValue(obj)
           [] column.Name = <<"H","O","S","T","S">> -> extractHostsValue(obj)
           [] column.Name = <<"A","D","D","R","E","S","S">> -> extractAddressValue(obj)
           [] column.Name = <<"P","O","R","T","S">> -> extractIngressPortsValue(obj, order)
           [] column.Name = <<"E","N","D","P","O","I","N","T","S">> -> extractEndpointsValue(obj)
           [] column.Name = <<"S","E","C","R","E","T","S">> -> extractSecretsValue(obj)
           [] column.Name = <<"H","A","R","D">> -> extractHardValue(obj, order)
           [] column.Name = <<"U","S","E","D">> -> extractUsedValue(obj, order)
           [] column.Name = <<"P","O","D","-","S","E","L","E","C","T","O","R">> ->
                  extractPodSelectorValue(obj, order)
           [] column.Name = <<"P","O","L","I","C","Y","-","T","Y","P","E","S">> -> extractPolicyTypesValue(obj)
           [] column.Name = <<"L","A","S","T"," ","S","E","E","N">> -> extractLastSeenValue(obj, now)
           [] column.Name = <<"O","B","J","E","C","T">> -> extractObjectValue(obj)
           [] column.Name = <<"N","O","D","E"," ","S","E","L","E","C","T","O","R">> ->
                  extractNodeSelectorValue(obj, order)
           [] column.Name = <<"A","L","L","O","W","V","O","L","U","M","E","E","X","P","A","N","S","I","O","N">> ->
                  extractAllowVolumeExpansionValue(obj)
           [] column.Name = <<"S","C","H","E","D","U","L","E">> -> extractScheduleValue(obj)
           [] column.Name = <<"S","U","S","P","E","N","D">> -> extractSuspendValue(obj)
           [] column.Name = <<"A","C","T","I","V","E">> -> extractActiveValue(obj)
           [] column.Name = <<"L","A","S","T"," ","S","C","H","E","D","U","L","E">> ->
                  extractLastScheduleValue(obj, now)
           [] column.Name \in { <<"C","R","E","A","T","E","D"," ","A","T">>, <<"C","R","E","A","T","E","D","-","A","T">> } ->
                  extractCreatedAtValue(obj, now)
           [] OTHER -> extractAtPath(obj, column)

\* the dispatch without the test for an empty path before it
ExtractColumnValueDispatchFirst(obj, column, now, order) ==
    dispatchByName(obj, column, now, order)

\* the declared path tried before the dispatch: a string found at the
\* column's path is returned, the extractor runs only when there is none
ExtractColumnValuePathFirst(obj, column, now, order) ==
    IF column.JSONPath = <<>>
    THEN column.DefaultValue
    ELSE LET r == NestedString(obj, Split(column.JSONPath, "."))
         IN  IF r.found /\ ~r.err
             THEN r.val
             ELSE dispatchByName(obj, column, now, order)

ExtractColumnValue(obj, column, now, order) ==
    IF column.JSONPath = <<>>
    THEN column.DefaultValue
    ELSE dispatchByName(obj, column, now, order)

----------------------------------------------------------------------------
(* Label formatting.                                                       *)

\* the printable ASCII characters from the space (byte 32) to the
\* underscore (byte 95), in byte order
Printable ==
    << " ", "!", "\"", "#", "$", "%", "&", "'", "(", ")", "*", "+", ",", "-", ".", "/",
       "0", "1", "2", "3", "4", "5", "6", "7", "8", "9", ":", ";", "<", "=", ">", "?",
       "@", "A", "B", "C", "D", "E", "F", "G", "H", "I", "J", "K", "L", "M", "N", "O",
       "P", "Q", "R", "S", "T", "U", "V", "W", "X", "Y", "Z", "[", "\\", "]", "^", "_" >>

\* the byte of a character: the lower-case letters start at byte 97
byteOf ==
    [c \in {Printable[i] : i \in DOMAIN Printable}
            \cup {LowerCase[i] : i \in DOMAIN LowerCase} |->
        IF \E i \in DOMAIN LowerCase : LowerCase[i] = c
        THEN 96 + (CHOOSE i \in DOMAIN LowerCase : LowerCase[i] = c)
        ELSE 31 + (CHOOSE i \in DOMAIN Printable : Printable[i] = c)]

\* a < b as Go compares strings: byte by byte, a proper prefix first
RECURSIVE Less(_, _)
Less(a, b) ==
    IF b = <<>>
    THEN FALSE
    ELSE IF a = <<>>
    THEN TRUE
    ELSE IF Head(a) = Head(b)
    THEN Less(Tail(a), Tail(b))
    ELSE byteOf[Head(a)] < byteOf[Head(b)]

\* sort.Strings: the strings in increasing order
RECURSIVE SortStrings(_)
SortStrings(items) ==
    IF items = <<>>
    THEN <<>>
    ELSE LET rest == SortStrings(Tail(items))
             x == Head(items)
             n == Cardinality({i \in DOMAIN rest : Less(rest[i], x)})
         IN  SubSeq(rest, 1, n) \o <<x>> \o SubSeq(rest, n + 1, Len(rest))

\* sorts the pairs by their key alone
FormatLabelsSortedByKey(labels, order) ==
    IF Cardinality(DOMAIN labels) = 0
    THEN <<"<","n","o","n","e",">">>
    ELSE LET keys == SortStrings(RangeOrder(DOMAIN labels, order))
         IN  Join([i \in DOMAIN keys |-> keys[i] \o <<"=">> \o labels[keys[i]]],
                  <<",">>)

\* order: the order in which the range loop visits the keys of labels
FormatLabels(labels, order) ==
    IF Cardinality(DOMAIN labels) = 0
    THEN <<"<","n","o","n","e",">">>
    ELSE LET keys == RangeOrder(DOMAIN labels, order)
             items == [i \in DOMAIN keys |->
                          keys[i] \o <<"=">> \o labels[keys[i]]]
         IN  Join(SortStrings(items), <<",">>)

\* the loop of the get package's formatLabels from the i-th visited key on
RECURSIVE formatLabelsFrom(_, _, _, _)
formatLabelsFrom(labels, keys, i, result) ==
    IF i > Len(keys)
    THEN result
    ELSE LET k == keys[i]
             separated == IF result # <<>> THEN result \o <<",">> ELSE result
         IN  formatLabelsFrom(labels, keys, i + 1,
                              separated \o k \o <<"=">> \o labels[k])

\* formatLabels of pkg/cmd/get; order: the order in which the range loop
\* visits the keys of labels
formatLabels(labels, order) ==
    IF Cardinality(DOMAIN labels) = 0
    THEN <<"<","n","o","n","e",">">>
    ELSE formatLabelsFrom(labels, RangeOrder(DOMAIN labels, order), 1, <<>>)

----------------------------------------------------------------------------
(* Inputs.                                                                 *)

\* the upper-case letter of every lower-case letter
upperOf ==
    [c \in {LowerCase[i] : i \in DOMAIN LowerCase} |->
        UpperCase[CHOOSE i \in DOMAIN LowerCase : LowerCase[i] = c]]

\* unicode.ToUpper on one character, to draw inputs in other letter cases
ToUpperChar(c) == IF c \in DOMAIN upperOf THEN upperOf[c] ELSE c

ToUpper(s) == [i \in 1..Len(s) |-> ToUpperChar(s[i])]

Capitalize(s) ==
    [i \in 1..Len(s) |-> IF i = 1 THEN ToUpperChar(s[i]) ELSE s[i]]

Alphabet == {"n", "s", "t", "d", "r", "N", "S"}

ShortStrings == UNION {[1..k -> Alphabet] : k \in 0..MaxLen}

\* the names the three static tables know, in three letter cases
KnownNames ==
    LET names == DOMAIN aliases \cup DOMAIN defaults \cup DOMAIN columns
    IN  names \cup {ToUpper(n) : n \in names}
              \cup {Capitalize(n) : n \in names}

OtherNames ==
    { <<"w","i","d","g","e","t">>, <<"w","i","d","g","e","t","s">>,
      <<"W","i","d","g","e","t">>, <<"w","g">>,
      <<"i","n","g","r","e","s","s">>, <<"I","n","g","r","e","s","s">>,
      <<"u","n","k","n","o","w","n","-","r","e","s","o","u","r","c","e">>,
      <<"h","p","a">>, <<"c","r","d">>, <<>> }

\* the resource-type strings a caller passes
TypeStrings ==
    KnownNames \cup (OtherNames \ KnownNames)
               \cup (ShortStrings \ (KnownNames \cup OtherNames))

\* API resources a discovery catalog may list
ResPool ==
    { [Name |-> <<"p","o","d","s">>, SingularName |-> <<"p","o","d">>,
       ShortNames |-> << <<"p","o">> >>, Namespaced |-> TRUE],
      [Name |-> <<"i","n","g","r","e","s","s","e","s">>,
       SingularName |-> <<"i","n","g","r","e","s","s">>,
       ShortNames |-> << <<"i","n","g">> >>, Namespaced |-> TRUE],
      [Name |-> <<"w","i","d","g","e","t","s">>,
       SingularName |-> <<"w","i","d","g","e","t">>,
       ShortNames |-> << <<"w","g">>, <<"P","O","D","S">> >>,
       Namespaced |-> FALSE] }

\* group-version strings of resource lists; the last one does not parse
GVPool ==
    { <<"v","1">>,
      <<"a","p","p","s","/","v","1">>,
      <<"a","/","b","/","c">> }

\* sequences over S of length at most n without repetition
InjSeqs(S, n) ==
    {s \in UNION {[1..k -> S] : k \in 0..n} :
        \A i, j \in DOMAIN s : i # j => s[i] # s[j]}

ResourceLists ==
    {[GroupVersion |-> gv, APIResources |-> rs] :
        gv \in GVPool, rs \in InjSeqs(ResPool, MaxRes)}

\* discovery catalogs: every group-version is listed at most once
Catalogs ==
    {c \in UNION {[1..k -> ResourceLists] : k \in 0..MaxLists} :
        \A i, j \in DOMAIN c :
            i # j => c[i].GroupVersion # c[j].GroupVersion}

\* the type strings tried against every catalog: they match a catalog
\* entry by plural, singular or short name, or match none
ProbeTypes ==
    { <<"p","o","d","s">>, <<"P","o">>, <<"i","n","g","r","e","s","s">>,
      <<"W","i","d","g","e","t">>, <<"w","g">>, <<"c","r","d">>,
      <<"D","E","P","L","O","Y">>, <<"n","o">> }

\* the type strings the resolver is called with
ResolverTypes ==
    LET named == KnownNames \cup (OtherNames \ KnownNames)
    IN  named \cup (({<<"n">>, <<"S","t">>} \cup ProbeTypes) \ named)

\* the catalogs a type string is resolved against
CatalogsFor(resourceType, queryErr) ==
    IF resourceType \in ProbeTypes /\ ~queryErr
    THEN Catalogs
    ELSE {c \in Catalogs : Len(c) <= 1}

----------------------------------------------------------------------------
(* Records the extraction engine is applied to.                            *)

\* sequences over pool of length at most n
Seqs(pool, n) == UNION {[1..k -> pool] : k \in 0..n}

\* the record val with value stored at the path fields[i..], intermediate
\* maps created as needed (unstructured.SetNestedField)
RECURSIVE setNested(_, _, _, _)
setNested(val, fields, i, value) ==
    IF i > Len(fields)
    THEN value
    ELSE LET m == IF TypeOf(val) = "map" THEN ValueOf(val) ELSE <<>>
             child == IF fields[i] \in DOMAIN m
                      THEN m[fields[i]]
                      ELSE EmptyRecord
         IN  MapVal((fields[i] :> setNested(child, fields, i + 1, value))
                        @@ m)

SetNested(obj, fields, value) == setNested(obj, fields, 1, value)

\* a map with one entry, and with two
Map1(k, v) == MapVal(k :> v)
Map2(k1, v1, k2, v2) == MapVal(k1 :> v1 @@ k2 :> v2)

\* two instants 90 seconds apart, as the API server writes them
T0 == <<"2","0","2","4","-","0","1","-","0","1","T","0","0",":","0","0",":","0","0","Z">>
T90 == <<"2","0","2","4","-","0","1","-","0","1","T","0","0",":","0","1",":","3","0","Z">>

\* values found where a string is expected
StringField(strings) ==
    {StringVal(s) : s \in strings} \cup {NilVal, Int64Val(7)}

TimeField ==
    StringField({T0, T90, <<"y","e","s","t","e","r","d","a","y">>})

\* values found where an integer is expected; Float64Val(n) stands for a
\* JSON number with a fraction
IntField ==
    {Int64Val(0), Int64Val(3), Float64Val(2), StringVal(<<"3">>), NilVal}

BoolField == {BoolVal(TRUE), BoolVal(FALSE), StringVal(<<"t","r","u","e">>)}

\* values found where a list is expected
SliceField(pool) ==
    {SliceVal(s) : s \in Seqs(pool, MaxItems)}
        \cup {NilVal, StringVal(<<"x">>)}

ContainerStatusPool ==
    { Map2(<<"r","e","a","d","y">>, BoolVal(TRUE), <<"r","e","s","t","a","r","t","C","o","u","n","t">>, Int64Val(2)),
      Map2(<<"r","e","a","d","y">>, BoolVal(FALSE), <<"r","e","s","t","a","r","t","C","o","u","n","t">>, Int64Val(0)),
      Map2(<<"r","e","a","d","y">>, StringVal(<<"t","r","u","e">>), <<"r","e","s","t","a","r","t","C","o","u","n","t">>, Float64Val(1)),
      StringVal(<<"x">>) }

IngressPool ==
    { Map1(<<"i","p">>, StringVal(<<"1",".","2",".","3",".","4">>)),
      Map1(<<"h","o","s","t","n","a","m","e">>, StringVal(<<"l","b",".","e","x","a","m","p","l","e">>)),
      Map2(<<"i","p">>, Int64Val(4), <<"h","o","s","t","n","a","m","e">>, StringVal(<<"l","b",".","e","x","a","m","p","l","e">>)),
      EmptyRecord }

PortPool ==
    { Map1(<<"p","o","r","t">>, Int64Val(80)),
      Map1(<<"p","o","r","t">>, Int64Val(443)),
      Map1(<<"p","o","r","t">>, StringVal(<<"h","t","t","p">>)),
      EmptyRecord }

RulePool ==
    { Map2(<<"h","o","s","t">>, StringVal(<<"a",".","e","x","a","m","p","l","e">>),
           <<"h","t","t","p">>, Map1(<<"p","a","t","h","s">>, SliceVal(<<EmptyRecord>>))),
      Map2(<<"h","o","s","t">>, StringVal(<<>>),
           <<"h","t","t","p">>, Map1(<<"p","a","t","h","s">>, SliceVal(<<>>))),
      StringVal(<<"x">>) }

SubsetPool ==
    { Map2(<<"a","d","d","r","e","s","s","e","s">>,
               SliceVal(<< Map1(<<"i","p">>, StringVal(<<"1","0",".","0",".","0",".","1">>)),
                           Map1(<<"i","p">>, StringVal(<<"1","0",".","0",".","0",".","2">>)) >>),
           <<"p","o","r","t","s">>,
               SliceVal(<< Map1(<<"p","o","r","t">>, Int64Val(80)),
                           Map1(<<"p","o","r","t">>, Int64Val(443)) >>)),
      Map1(<<"a","d","d","r","e","s","s","e","s">>,
               SliceVal(<< Map1(<<"i","p">>, StringVal(<<"1","0",".","0",".","0",".","3">>)) >>)),
      Map1(<<"p","o","r","t","s">>, SliceVal(<< Map1(<<"p","o","r","t">>, Int64Val(53)) >>)),
      Map2(<<"a","d","d","r","e","s","s","e","s">>, SliceVal(<< Map1(<<"i","p">>, Int64Val(1)) >>),
           <<"p","o","r","t","s">>, SliceVal(<< Map1(<<"p","o","r","t">>, StringVal(<<"d","n","s">>)) >>)) }

\* resource-name -> quantity maps (capacity, hard, used)
QuantityMapField ==
    { EmptyRecord,
      Map1(<<"s","t","o","r","a","g","e">>, StringVal(<<"1","0","G","i">>)),
      Map2(<<"s","t","o","r","a","g","e">>, StringVal(<<"1","0","G","i">>), <<"c","p","u">>, StringVal(<<"2">>)),
      Map2(<<"s","t","o","r","a","g","e">>, Map1(<<"s","t","r","i","n","g">>, StringVal(<<"5","G","i">>)),
           <<"c","p","u">>, Int64Val(2)),
      Map1(<<"s","t","o","r","a","g","e">>, Int64Val(1)),
      NilVal }

\* label selector maps
LabelMapField ==
    { EmptyRecord,
      Map1(<<"a","p","p">>, StringVal(<<"w","e","b">>)),
      Map2(<<"a","p","p">>, StringVal(<<"w","e","b">>), <<"t","i","e","r">>, StringVal(<<"d","b">>)),
      Map2(<<"a","p","p">>, Int64Val(1), <<"t","i","e","r">>, StringVal(<<"d","b">>)),
      Map1(<<"a","p","p">>, BoolVal(TRUE)),
      StringVal(<<"x">>) }

StringSliceField(a, b) ==
    { SliceVal(<<>>), SliceVal(<<StringVal(a)>>),
      SliceVal(<<StringVal(a), StringVal(b)>>),
      SliceVal(<<StringVal(a), Int64Val(1)>>), NilVal }

ClaimRefField ==
    { Map2(<<"n","a","m","e">>, StringVal(<<"d","a","t","a">>), <<"n","a","m","e","s","p","a","c","e">>, StringVal(<<"p","r","o","d">>)),
      Map1(<<"n","a","m","e">>, StringVal(<<"d","a","t","a">>)),
      Map1(<<"n","a","m","e","s","p","a","c","e">>, StringVal(<<"p","r","o","d">>)),
      Map2(<<"n","a","m","e">>, StringVal(<<>>), <<"n","a","m","e","s","p","a","c","e">>, StringVal(<<>>)),
      Map1(<<"n","a","m","e">>, StringVal(<<>>)),
      EmptyRecord, NilVal }

DataMapField ==
    { EmptyRecord, Map1(<<"a">>, StringVal(<<"1">>)),
      Map2(<<"a">>, StringVal(<<"1">>), <<"b">>, StringVal(<<"2">>)), NilVal }

\* what single fields of a record may hold: the path and its values
FieldValues ==
    << [path |-> << <<"s","t","a","t","u","s">>, <<"c","o","n","t","a","i","n","e","r","S","t","a","t","u","s","e","s">> >>,
        values |-> SliceField(ContainerStatusPool)],
       [path |-> << <<"s","t","a","t","u","s">>, <<"p","h","a","s","e">> >>,
        values |-> StringField({ <<"R","u","n","n","i","n","g">>, <<>> })],
       [path |-> << <<"s","p","e","c">>, <<"t","y","p","e">> >>,
        values |-> StringField({ <<"L","o","a","d","B","a","l","a","n","c","e","r">>, <<>> })],
       [path |-> << <<"t","y","p","e">> >>,
        values |-> StringField({ <<"k","u","b","e","r","n","e","t","e","s",".","i","o","/","t","l","s">>, <<>> })],
       [path |-> << <<"s","p","e","c">>, <<"c","l","u","s","t","e","r","I","P">> >>,
        values |-> StringField({ <<"1","0",".","0",".","0",".","1">>, <<>> })],
       [path |-> << <<"s","t","a","t","u","s">>, <<"l","o","a","d","B","a","l","a","n","c","e","r">>, <<"i","n","g","r","e","s","s">> >>,
        values |-> SliceField(IngressPool)],
       [path |-> << <<"s","p","e","c">>, <<"p","o","r","t","s">> >>,
        values |-> SliceField(PortPool)],
       [path |-> << <<"s","p","e","c">>, <<"e","x","t","e","r","n","a","l","I","P","s">> >>,
        values |-> {SliceVal(<< StringVal(<<"5",".","6",".","7",".","8">>) >>)}],
       [path |-> << <<"s","t","a","t","u","s">>, <<"r","e","a","d","y","R","e","p","l","i","c","a","s">> >>, values |-> IntField],
       [path |-> << <<"s","t","a","t","u","s">>, <<"u","p","d","a","t","e","d","R","e","p","l","i","c","a","s">> >>, values |-> IntField],
       [path |-> << <<"s","t","a","t","u","s">>, <<"a","v","a","i","l","a","b","l","e","R","e","p","l","i","c","a","s">> >>, values |-> IntField],
       [path |-> << <<"s","p","e","c">>, <<"r","e","p","l","i","c","a","s">> >>, values |-> IntField],
       [path |-> << <<"s","t","a","t","u","s">>, <<"r","e","p","l","i","c","a","s">> >>, values |-> IntField],
       [path |-> << <<"s","t","a","t","u","s">>, <<"d","e","s","i","r","e","d","N","u","m","b","e","r","S","c","h","e","d","u","l","e","d">> >>,
        values |-> IntField],
       [path |-> << <<"s","p","e","c">>, <<"s","t","o","r","a","g","e","C","l","a","s","s","N","a","m","e">> >>,
        values |-> StringField({ <<"s","t","a","n","d","a","r","d">>, <<>> })],
       [path |-> << <<"s","p","e","c">>, <<"c","l","a","i","m","R","e","f">> >>, values |-> ClaimRefField],
       [path |-> << <<"s","p","e","c">>, <<"p","e","r","s","i","s","t","e","n","t","V","o","l","u","m","e","R","e","c","l","a","i","m","P","o","l","i","c","y">> >>,
        values |-> StringField({ <<"R","e","t","a","i","n">>, <<>> })],
       [path |-> << <<"s","p","e","c">>, <<"v","o","l","u","m","e","N","a","m","e">> >>,
        values |-> StringField({ <<"p","v","-","1">>, <<>> })],
       [path |-> << <<"s","t","a","t","u","s">>, <<"r","e","a","s","o","n">> >>,
        values |-> StringField({ <<"L","o","s","t">>, <<>> })],
       [path |-> << <<"s","u","b","s","e","t","s">> >>, values |-> SliceField(SubsetPool)],
       [path |-> << <<"s","e","c","r","e","t","s">> >>,
        values |-> SliceField({Map1(<<"n","a","m","e">>, StringVal(<<"t","o","k","e","n">>))})],
       [path |-> << <<"s","t","a","t","u","s">>, <<"h","a","r","d">> >>, values |-> QuantityMapField],
       [path |-> << <<"s","t","a","t","u","s">>, <<"u","s","e","d">> >>, values |-> QuantityMapField],
       [path |-> << <<"s","p","e","c">>, <<"p","o","d","S","e","l","e","c","t","o","r">>, <<"m","a","t","c","h","L","a","b","e","l","s">> >>,
        values |-> LabelMapField],
       [path |-> << <<"s","p","e","c">>, <<"p","o","d","S","e","l","e","c","t","o","r">> >>,
        values |-> {EmptyRecord, StringVal(<<"x">>)}],
       [path |-> << <<"s","p","e","c">>, <<"t","e","m","p","l","a","t","e">>, <<"s","p","e","c">>, <<"n","o","d","e","S","e","l","e","c","t","o","r">> >>,
        values |-> LabelMapField],
       [path |-> << <<"s","p","e","c">>, <<"p","o","l","i","c","y","T","y","p","e","s">> >>,
        values |-> StringSliceField(<<"I","n","g","r","e","s","s">>, <<"E","g","r","e","s","s">>)],
       [path |-> << <<"a","l","l","o","w","V","o","l","u","m","e","E","x","p","a","n","s","i","o","n">> >>, values |-> BoolField],
       [path |-> << <<"p","r","o","v","i","s","i","o","n","e","r">> >>,
        values |-> StringField({ <<"e","b","s",".","c","s","i",".","a","w","s",".","c","o","m">>, <<>> })],
       [path |-> << <<"r","e","c","l","a","i","m","P","o","l","i","c","y">> >>,
        values |-> StringField({ <<"R","e","t","a","i","n">>, <<>> })],
       [path |-> << <<"v","o","l","u","m","e","B","i","n","d","i","n","g","M","o","d","e">> >>,
        values |-> StringField({ <<"W","a","i","t","F","o","r","F","i","r","s","t","C","o","n","s","u","m","e","r">>, <<>> })],
       [path |-> << <<"s","p","e","c">>, <<"s","c","h","e","d","u","l","e">> >>,
        values |-> StringField({ <<"*","/","5"," ","*"," ","*"," ","*"," ","*">>, <<>> })],
       [path |-> << <<"s","p","e","c">>, <<"s","u","s","p","e","n","d">> >>, values |-> BoolField],
       [path |-> << <<"s","t","a","t","u","s">>, <<"a","c","t","i","v","e">> >>,
        values |-> SliceField({EmptyRecord})],
       [path |-> << <<"s","t","a","t","u","s">>, <<"l","a","s","t","S","c","h","e","d","u","l","e","T","i","m","e">> >>, values |-> TimeField],
       [path |-> << <<"m","e","t","a","d","a","t","a">>, <<"c","r","e","a","t","i","o","n","T","i","m","e","s","t","a","m","p">> >>,
        values |-> TimeField],
       [path |-> << <<"r","e","a","s","o","n">> >>,
        values |-> StringField({ <<"S","c","h","e","d","u","l","e","d">>, <<>> })],
       [path |-> << <<"m","e","s","s","a","g","e">> >>,
        values |-> StringField({ <<"S","t","a","r","t","e","d"," ","c","o","n","t","a","i","n","e","r">>, <<>> })],
       [path |-> << <<"s","t","a","t","u","s">> >>, values |-> {StringVal(<<"x">>), NilVal}],
       [path |-> << <<"s","p","e","c">> >>, values |-> {StringVal(<<"x">>), NilVal}],
       [path |-> << <<"m","e","t","a","d","a","t","a">> >>, values |-> {Int64Val(1), NilVal}] >>

\* what pairs of fields one extractor reads together may hold
FieldPairValues ==
    << [path1 |-> << <<"s","t","a","t","u","s">>, <<"s","u","c","c","e","e","d","e","d">> >>, values1 |-> IntField,
        path2 |-> << <<"s","p","e","c">>, <<"c","o","m","p","l","e","t","i","o","n","s">> >>, values2 |-> IntField],
       [path1 |-> << <<"s","t","a","t","u","s">>, <<"s","t","a","r","t","T","i","m","e">> >>, values1 |-> TimeField,
        path2 |-> << <<"s","t","a","t","u","s">>, <<"c","o","m","p","l","e","t","i","o","n","T","i","m","e">> >>,
        values2 |-> TimeField],
       [path1 |-> << <<"d","a","t","a">> >>, values1 |-> DataMapField,
        path2 |-> << <<"b","i","n","a","r","y","D","a","t","a">> >>, values2 |-> DataMapField],
       [path1 |-> << <<"s","p","e","c">>, <<"c","a","p","a","c","i","t","y">> >>, values1 |-> QuantityMapField,
        path2 |-> << <<"s","t","a","t","u","s">>, <<"c","a","p","a","c","i","t","y">> >>,
        values2 |-> QuantityMapField],
       [path1 |-> << <<"s","p","e","c">>, <<"a","c","c","e","s","s","M","o","d","e","s">> >>,
        values1 |-> StringSliceField(<<"R","e","a","d","W","r","i","t","e","O","n","c","e">>, <<"R","e","a","d","O","n","l","y","M","a","n","y">>),
        path2 |-> << <<"s","t","a","t","u","s">>, <<"a","c","c","e","s","s","M","o","d","e","s">> >>,
        values2 |-> StringSliceField(<<"R","e","a","d","W","r","i","t","e","M","a","n","y">>, <<"R","e","a","d","O","n","l","y","M","a","n","y">>)],
       [path1 |-> << <<"s","p","e","c">>, <<"r","u","l","e","s">> >>, values1 |-> SliceField(RulePool),
        path2 |-> << <<"s","p","e","c">>, <<"t","l","s">> >>,
        values2 |-> {SliceVal(<<>>), SliceVal(<<EmptyRecord>>), NilVal}],
       [path1 |-> << <<"l","a","s","t","T","i","m","e","s","t","a","m","p">> >>, values1 |-> TimeField,
        path2 |-> << <<"f","i","r","s","t","T","i","m","e","s","t","a","m","p">> >>, values2 |-> TimeField],
       [path1 |-> << <<"i","n","v","o","l","v","e","d","O","b","j","e","c","t">>, <<"k","i","n","d">> >>,
        values1 |-> StringField({ <<"P","o","d">>, <<>> }),
        path2 |-> << <<"i","n","v","o","l","v","e","d","O","b","j","e","c","t">>, <<"n","a","m","e">> >>,
        values2 |-> StringField({ <<"w","e","b","-","0">>, <<>> })] >>

\* records with one field set
SingleFieldRecords ==
    UNION {{SetNested(EmptyRecord, FieldValues[i].path, v) :
                v \in FieldValues[i].values} : i \in DOMAIN FieldValues}

\* records with one or both fields of a pair set
FieldPairRecords ==
    UNION {LET p == FieldPairValues[i]
           IN  {SetNested(EmptyRecord, p.path1, v) : v \in p.values1}
                 \cup {SetNested(EmptyRecord, p.path2, v) : v \in p.values2}
                 \cup {SetNested(SetNested(EmptyRecord, p.path1, v1),
                                 p.path2, v2) :
                          v1 \in p.values1, v2 \in p.values2}
           : i \in DOMAIN FieldPairValues}

\* a pod with three containers: ready, not ready, ready; restarted 2, 0
\* and 3 times
PodOfThree ==
    SetNested(EmptyRecord, << <<"s","t","a","t","u","s">>, <<"c","o","n","t","a","i","n","e","r","S","t","a","t","u","s","e","s">> >>,
        SliceVal(<< Map2(<<"r","e","a","d","y">>, BoolVal(TRUE), <<"r","e","s","t","a","r","t","C","o","u","n","t">>, Int64Val(2)),
                    Map2(<<"r","e","a","d","y">>, BoolVal(FALSE), <<"r","e","s","t","a","r","t","C","o","u","n","t">>, Int64Val(0)),
                    Map2(<<"r","e","a","d","y">>, BoolVal(TRUE), <<"r","e","s","t","a","r","t","C","o","u","n","t">>, Int64Val(3)) >>))

ExampleRecords == {PodOfThree}

Records ==
    LET single == SingleFieldRecords \ {EmptyRecord}
        generated == {EmptyRecord} \cup single \cup (FieldPairRecords \ single)
    IN  generated \cup (ExampleRecords \ generated)

\* the keys of the maps the extractors range over; no map of Records has
\* more than two of them, so the two orders below give every map of
\* Records each of its iteration orders
RangeKeys == << <<"4","4","3">>, <<"8","0">>, <<"a","p","p">>, <<"c","p","u">>, <<"s","t","o","r","a","g","e">>, <<"t","i","e","r">> >>

RangeOrders ==
    {RangeKeys, [i \in DOMAIN RangeKeys |-> RangeKeys[Len(RangeKeys) + 1 - i]]}

\* the instants time.Now() may return: after both T0 and T90
Clock ==
    {ParseRFC3339(T0).unix + d : d \in {100, 3700}}

\* label maps: "a-b=..." sorts before "a=..." though "a" sorts before
\* "a-b", and "B" sorts before "a"
LabelKeys == { <<"a">>, <<"b">>, <<"a","-","b">>, <<"B">> }

LabelValues == { <<"1">>, <<"2">>, <<>> }

LabelMaps ==
    UNION {[S -> LabelValues] :
              S \in {T \in SUBSET LabelKeys : Cardinality(T) <= MaxLabels}}

\* the orders in which a range loop may visit the keys
LabelOrders ==
    {s \in [1..Cardinality(LabelKeys) -> LabelKeys] :
        \A i, j \in DOMAIN s : i # j => s[i] # s[j]}

----------------------------------------------------------------------------
(* The state machine: one call of one operation.                           *)

Init ==
    /\ pc = "idle"
    /\ call = [op |-> "none"]
    /\ ret = [op |-> "none"]

CallNormalize ==
    /\ pc = "idle"
    /\ \E resourceType \in TypeStrings :
        /\ call' = [op |-> "normalizeResourceType",
                    resourceType |-> resourceType]
        /\ ret' = [name |-> normalizeResourceType(resourceType)]
    /\ pc' = "done"

CallDiscoverGVR ==
    /\ pc = "idle"
    /\ \E resourceType \in ResolverTypes, queryErr \in BOOLEAN :
        \E apiResourceLists \in CatalogsFor(resourceType, queryErr) :
            /\ call' = [op |-> "DiscoverGVR", queryErr |-> queryErr,
                        apiResourceLists |-> apiResourceLists,
                        resourceType |-> resourceType]
            /\ ret' = DiscoverGVR(queryErr, apiResourceLists, resourceType)
    /\ pc' = "done"

CallGetResourceColumns ==
    /\ pc = "idle"
    /\ \E resourceType \in TypeStrings :
        /\ call' = [op |-> "GetResourceColumns",
                    resourceType |-> resourceType]
        /\ ret' = [columns |-> GetResourceColumns(resourceType)]
    /\ pc' = "done"

\* the columns whose extractor reads the clock / ranges over a map
ClockColumns ==
    { <<"D","U","R","A","T","I","O","N">>, <<"L","A","S","T"," ","S","E","E","N">>, <<"L","A","S","T"," ","S","C","H","E","D","U","L","E">>, <<"C","R","E","A","T","E","D"," ","A","T">>,
      <<"C","R","E","A","T","E","D","-","A","T">> }

RangeColumns ==
    { <<"C","A","P","A","C","I","T","Y">>, <<"P","O","R","T","S">>, <<"H","A","R","D">>, <<"U","S","E","D">>, <<"P","O","D","-","S","E","L","E","C","T","O","R">>,
      <<"N","O","D","E"," ","S","E","L","E","C","T","O","R">> }

\* the clock readings and range orders that can make a difference to the
\* column: one of each for a column that uses neither
ClockFor(column) ==
    IF column.Name \in ClockColumns
    THEN Clock
    ELSE {CHOOSE now \in Clock : \A other \in Clock : now <= other}

RangeOrdersFor(column) ==
    IF column.Name \in RangeColumns THEN RangeOrders ELSE {RangeKeys}

\* column definitions a caller builds itself: a dispatched name with no
\* path, and the OBJECT name with a path
CustomColumns ==
    { [Name |-> <<"R","E","A","D","Y">>, JSONPath |-> <<>>, DefaultValue |-> <<"-">>],
      [Name |-> <<"O","B","J","E","C","T">>, JSONPath |-> <<"i","n","v","o","l","v","e","d","O","b","j","e","c","t">>,
       DefaultValue |-> <<"<","u","n","k","n","o","w","n",">">>] }

\* the columns rendered for a resource type: the registry's, and for a type
\* the registry does not know the caller's own as well
ColumnsOf(resourceType) ==
    {GetResourceColumns(resourceType)[i] :
        i \in DOMAIN GetResourceColumns(resourceType)}
      \cup (IF resourceType = <<"w","i","d","g","e","t","s">> THEN CustomColumns ELSE {})

\* the caller renders one cell: a column of the record's resource type
CallExtractColumnValue ==
    /\ pc = "idle"
    /\ \E resourceType \in DOMAIN columns \cup { <<"w","i","d","g","e","t","s">> } :
        \E column \in ColumnsOf(resourceType), obj \in Records :
            \E now \in ClockFor(column), order \in RangeOrdersFor(column) :
                /\ call' = [op |-> "ExtractColumnValue",
                            resourceType |-> resourceType,
                            obj |-> obj, column |-> column,
                            now |-> now, order |-> order]
                /\ ret' = [value |-> ExtractColumnValue(obj, column,
                                                       now, order)]
    /\ pc' = "done"

\* the caller renders the labels of a record
CallFormatLabels ==
    /\ pc = "idle"
    /\ \E labels \in LabelMaps, order \in LabelOrders :
        /\ call' = [op |-> "FormatLabels", labels |-> labels,
                    order |-> order]
        /\ ret' = [text |-> FormatLabels(labels, order)]
    /\ pc' = "done"

\* the get package renders the labels of a record
CallformatLabels ==
    /\ pc = "idle"
    /\ \E labels \in LabelMaps, order \in LabelOrders :
        /\ call' = [op |-> "formatLabels", labels |-> labels,
                    order |-> order]
        /\ ret' = [text |-> formatLabels(labels, order)]
    /\ pc' = "done"

Next ==
    \/ CallNormalize
    \/ CallDiscoverGVR
    \/ CallGetResourceColumns
    \/ CallExtractColumnValue
    \/ CallFormatLabels
    \/ CallformatLabels

Spec == Init /\ [][Next]_vars

----------------------------------------------------------------------------
(* Several callers at once. Every call runs in steps, and the steps of the  *)
(* callers' calls interleave. pc, call and ret hold one entry per caller;   *)
(* call[c] is the activation record of the call of caller c: the operation, *)
(* its arguments and its local variables. The alias table, the default      *)
(* table and the column table are built by every call for itself and        *)
(* written by no statement after that: they are the definitions aliases,    *)
(* defaults and columns.                                                    *)

\* most callers with a call in flight
MaxCallers == 2

Callers == 1..MaxCallers

InFlight(c) == pc[c] \notin {"idle", "done"}

\* the type strings, catalogs and cells of the concurrent callers
ConcurrentTypes == { <<"p","o">>, <<"W","i","d","g","e","t">> }

ConcurrentCatalogs ==
    { <<>>,
      << [GroupVersion |-> <<"v","1">>,
          APIResources |-> << [Name |-> <<"p","o","d","s">>, SingularName |-> <<"p","o","d">>,
                               ShortNames |-> << <<"p","o">> >>,
                               Namespaced |-> TRUE] >>] >> }

ConcurrentColumnTypes == { <<"P","o","d","s">>, <<"w","i","d","g","e","t","s">> }

ConcurrentCells ==
    { [resourceType |-> <<"p","o","d","s">>, column |-> columns[<<"p","o","d","s">>][1],
       obj |-> PodOfThree],
      [resourceType |-> <<"s","e","c","r","e","t","s">>, column |-> columns[<<"s","e","c","r","e","t","s">>][1],
       obj |-> EmptyRecord],
      [resourceType |-> <<"w","i","d","g","e","t","s">>,
       column |-> CHOOSE column \in CustomColumns : column.JSONPath = <<>>,
       obj |-> PodOfThree] }

\* history kept in the activation record and read by no step: whether a
\* step of the call was taken while another caller's call was in flight
stepped(frames, c) ==
    [frames EXCEPT ![c].overlapped = @ \/ \E d \in Callers \ {c} : InFlight(d)]

\* normalizedType as a variable of the package, one for all callers
storeNormalizedTypeShared(frames, c, normalizedType) ==
    [d \in Callers |->
        IF "normalizedType" \in DOMAIN frames[d]
        THEN [frames[d] EXCEPT !.normalizedType = normalizedType]
        ELSE frames[d]]

\* normalizedType := ..., a local variable of the call of caller c
storeNormalizedType(frames, c, normalizedType) ==
    [frames EXCEPT ![c].normalizedType = normalizedType]

InitConcurrent ==
    /\ pc = [c \in Callers |-> "idle"]
    /\ call = [c \in Callers |-> [op |-> "none"]]
    /\ ret = [c \in Callers |-> [op |-> "none"]]

\* caller c enters DiscoverGVR
BeginDiscoverGVR(c) ==
    /\ pc[c] = "idle"
    /\ \E resourceType \in ConcurrentTypes, queryErr \in BOOLEAN,
          apiResourceLists \in ConcurrentCatalogs :
        call' = [call EXCEPT ![c] =
                    [op |-> "DiscoverGVR", queryErr |-> queryErr,
                     apiResourceLists |-> apiResourceLists,
                     resourceType |-> resourceType,
                     normalizedType |-> <<>>,
                     overlapped |-> \E d \in Callers \ {c} : InFlight(d)]]
    /\ pc' = [pc EXCEPT ![c] = "query"]
    /\ UNCHANGED ret

\* ServerGroupsAndResources returns, and the error test after it
QueryCatalog(c) ==
    /\ pc[c] = "query"
    /\ call' = stepped(call, c)
    /\ IF call[c].queryErr
       THEN /\ ret' = [ret EXCEPT ![c] = [gvr |-> EmptyGVR,
                                          namespaced |-> FALSE,
                                          err |-> TRUE]]
            /\ pc' = [pc EXCEPT ![c] = "done"]
       ELSE /\ pc' = [pc EXCEPT ![c] = "normalize"]
            /\ UNCHANGED ret

\* normalizedType := normalizeResourceType(resourceType)
NormalizeType(c) ==
    /\ pc[c] = "normalize"
    /\ call' = storeNormalizedType(stepped(call, c), c,
                   normalizeResourceType(call[c].resourceType))
    /\ pc' = [pc EXCEPT ![c] = "resolve"]
    /\ UNCHANGED ret

\* the loops over the catalog and the fallback to getDefaultGVR
ResolveType(c) ==
    /\ pc[c] = "resolve"
    /\ call' = stepped(call, c)
    /\ ret' = [ret EXCEPT ![c] = scanLists(call[c].apiResourceLists,
                                           call[c].normalizedType, 1)]
    /\ pc' = [pc EXCEPT ![c] = "done"]

\* caller c enters GetResourceColumns, which builds its column table
BeginGetResourceColumns(c) ==
    /\ pc[c] = "idle"
    /\ \E resourceType \in ConcurrentColumnTypes :
        call' = [call EXCEPT ![c] =
                    [op |-> "GetResourceColumns",
                     resourceType |-> resourceType,
                     overlapped |-> \E d \in Callers \ {c} : InFlight(d)]]
    /\ pc' = [pc EXCEPT ![c] = "lookup"]
    /\ UNCHANGED ret

\* the lookup in the table and the return
LookUpColumns(c) ==
    /\ pc[c] = "lookup"
    /\ call' = stepped(call, c)
    /\ ret' = [ret EXCEPT ![c] =
                  [columns |-> GetResourceColumns(call[c].resourceType)]]
    /\ pc' = [pc EXCEPT ![c] = "done"]

\* caller c enters ExtractColumnValue
BeginExtractColumnValue(c) ==
    /\ pc[c] = "idle"
    /\ \E cell \in ConcurrentCells :
        \E now \in ClockFor(cell.column),
           order \in RangeOrdersFor(cell.column) :
            call' = [call EXCEPT ![c] =
                        [op |-> "ExtractColumnValue",
                         resourceType |-> cell.resourceType,
                         obj |-> cell.obj, column |-> cell.column,
                         now |-> now, order |-> order,
                         overlapped |->
                             \E d \in Callers \ {c} : InFlight(d)]]
    /\ pc' = [pc EXCEPT ![c] = "path"]
    /\ UNCHANGED ret

\* the test for the empty path
TestPath(c) ==
    /\ pc[c] = "path"
    /\ call' = stepped(call, c)
    /\ IF call[c].column.JSONPath = <<>>
       THEN /\ ret' = [ret EXCEPT ![c] =
                          [value |-> call[c].column.DefaultValue]]
            /\ pc' = [pc EXCEPT ![c] = "done"]
       ELSE /\ pc' = [pc EXCEPT ![c] = "dispatch"]
            /\ UNCHANGED ret

\* the switch on the column name and the extractor it selects
DispatchColumn(c) ==
    /\ pc[c] = "dispatch"
    /\ call' = stepped(call, c)
    /\ ret' = [ret EXCEPT ![c] =
                  [value |-> dispatchByName(call[c].obj, call[c].column,
                                            call[c].now, call[c].order)]]
    /\ pc' = [pc EXCEPT ![c] = "done"]

NextConcurrent ==
    \/ \E c \in Callers : BeginDiscoverGVR(c)
    \/ \E c \in Callers : QueryCatalog(c)
    \/ \E c \in Callers : NormalizeType(c)
    \/ \E c \in Callers : ResolveType(c)
    \/ \E c \in Callers : BeginGetResourceColumns(c)
    \/ \E c \in Callers : LookUpColumns(c)
    \/ \E c \in Callers : BeginExtractColumnValue(c)
    \/ \E c \in Callers : TestPath(c)
    \/ \E c \in Callers : DispatchColumn(c)

SpecConcurrent == InitConcurrent /\ [][NextConcurrent]_vars

----------------------------------------------------------------------------
(* Properties of the resolver and the normalizer.                          *)

ReturnedFrom(op) == pc = "done" /\ call.op = op

\* a name of the API resource equals t up to letter case
NameMatches(apiResource, t) ==
    \E n \in {apiResource.Name, apiResource.SingularName}
                \cup {apiResource.ShortNames[k] :
                        k \in DOMAIN apiResource.ShortNames} :
        ToLower(n) = ToLower(t)

\* positions <<list, entry>> of the catalog's entries that match t
MatchPositions(lists, t) ==
    {p \in UNION {{<<i, j>> : j \in DOMAIN lists[i].APIResources} :
                     i \in DOMAIN lists} :
        NameMatches(lists[p[1]].APIResources[p[2]], t)}

\* a group-version string with at most one slash
Parses(gv) == Count(gv, "/") <= 1

ParsableMatchPositions(lists, t) ==
    {p \in MatchPositions(lists, t) : Parses(lists[p[1]].GroupVersion)}

\* the first position of P in catalog iteration order
FirstPosition(P) ==
    CHOOSE p \in P :
        \A q \in P : p[1] < q[1] \/ (p[1] = q[1] /\ p[2] <= q[2])

\* the descriptor of the catalog entry at position p
DescriptorAt(lists, p) ==
    LET gv == ParseGroupVersion(lists[p[1]].GroupVersion)
        e  == lists[p[1]].APIResources[p[2]]
    IN  [gvr |-> [Group |-> gv.Group, Version |-> gv.Version,
                  Resource |-> e.Name],
         namespaced |-> e.Namespaced, err |-> FALSE]

\* C1 as claimed: when the catalog query succeeds and some entry of the
\* catalog matches normalize(typeString), DiscoverGVR returns without error
\* the descriptor of the first matching entry in catalog iteration order.
C1_FirstMatchOfCatalog ==
    (ReturnedFrom("DiscoverGVR") /\ ~call.queryErr) =>
        LET t == normalizeResourceType(call.resourceType)
            P == MatchPositions(call.apiResourceLists, t)
        IN  P # {} =>
                ret = DescriptorAt(call.apiResourceLists, FirstPosition(P))

\* C1 amended: when the catalog query succeeds and some entry of a resource
\* list whose group-version string parses matches normalize(typeString),
\* DiscoverGVR returns without error the descriptor of the first such entry
\* in catalog iteration order; lists whose group-version does not parse are
\* skipped.
C1_FirstMatchOfParsableLists ==
    (ReturnedFrom("DiscoverGVR") /\ ~call.queryErr) =>
        LET t == normalizeResourceType(call.resourceType)
            P == ParsableMatchPositions(call.apiResourceLists, t)
        IN  P # {} =>
                ret = DescriptorAt(call.apiResourceLists, FirstPosition(P))

\* two entries of parsable lists match, by a short name and by the plural
\* name, with different descriptors, and the first one was returned
C1_Witness ==
    /\ ReturnedFrom("DiscoverGVR") /\ ~call.queryErr
    /\ LET t == normalizeResourceType(call.resourceType)
           P == ParsableMatchPositions(call.apiResourceLists, t)
       IN  /\ Cardinality(P) >= 2
           /\ \E q \in P : DescriptorAt(call.apiResourceLists, q) # ret
           /\ ret = DescriptorAt(call.apiResourceLists, FirstPosition(P))
           /\ ret.gvr.Resource # t

\* C2: with a catalog in hand DiscoverGVR always yields a descriptor, and
\* when neither the catalog nor the static default table holds
\* normalize(typeString) the descriptor is the core group at "v1" with the
\* normalized name, namespaced.
C2_AlwaysADescriptor ==
    (ReturnedFrom("DiscoverGVR") /\ ~call.queryErr) =>
        LET t == normalizeResourceType(call.resourceType)
        IN  /\ ~ret.err
            /\ (MatchPositions(call.apiResourceLists, t) = {}
                    /\ t \notin DOMAIN defaults) =>
                ret = [gvr |-> [Group |-> <<>>, Version |-> <<"v","1">>,
                                Resource |-> t],
                       namespaced |-> TRUE, err |-> FALSE]

\* an unknown type string against a non-empty catalog without a match
C2_Witness ==
    /\ ReturnedFrom("DiscoverGVR") /\ ~call.queryErr
    /\ call.resourceType = <<"c","r","d">>
    /\ Len(call.apiResourceLists) = MaxLists
    /\ ret.gvr = [Group |-> <<>>, Version |-> <<"v","1">>,
                  Resource |-> <<"c","r","d","s">>]
    /\ ret.namespaced

\* C3: when the catalog gives no match, every alias and every key of the
\* static default table resolves to the table's fixed group, version and
\* resource of the normalized name with namespaced = true; "po" against
\* the empty catalog gives core/v1 pods, namespaced.
C3_StaticFallback ==
    (ReturnedFrom("DiscoverGVR") /\ ~call.queryErr) =>
        LET t == normalizeResourceType(call.resourceType)
        IN  /\ (/\ ParsableMatchPositions(call.apiResourceLists, t) = {}
                /\ ToLower(call.resourceType)
                       \in DOMAIN aliases \cup DOMAIN defaults) =>
                   /\ t \in DOMAIN defaults
                   /\ ret = [gvr |-> defaults[t], namespaced |-> TRUE,
                             err |-> FALSE]
            /\ (call.resourceType = <<"p","o">>
                    /\ call.apiResourceLists = <<>>) =>
                   ret = [gvr |-> [Group |-> <<>>, Version |-> <<"v","1">>,
                                   Resource |-> <<"p","o","d","s">>],
                          namespaced |-> TRUE, err |-> FALSE]

\* the alias "deploy", in capitals, falls back to apps/v1 deployments
\* while the catalog lists other resources
C3_Witness ==
    /\ ReturnedFrom("DiscoverGVR") /\ ~call.queryErr
    /\ call.resourceType = <<"D","E","P","L","O","Y">>
    /\ call.apiResourceLists # <<>>
    /\ ret.gvr = [Group |-> <<"a","p","p","s">>, Version |-> <<"v","1">>,
                  Resource |-> <<"d","e","p","l","o","y","m","e","n","t","s">>]
    /\ ret.namespaced

\* C4: DiscoverGVR returns an error exactly when the catalog query fails,
\* and then the descriptor is empty and namespaced is false; no match, an
\* unknown type string or an unparsable group-version give no error.
C4_ErrorIffQueryFails ==
    ReturnedFrom("DiscoverGVR") =>
        /\ ret.err <=> call.queryErr
        /\ ret.err => (ret.gvr = EmptyGVR /\ ~ret.namespaced)

\* the query succeeded, a list of the catalog does not parse, and there is
\* no error
C4_Witness ==
    /\ ReturnedFrom("DiscoverGVR") /\ ~call.queryErr /\ ~ret.err
    /\ \E i \in DOMAIN call.apiResourceLists :
           ~Parses(call.apiResourceLists[i].GroupVersion)
    /\ MatchPositions(call.apiResourceLists,
                      normalizeResourceType(call.resourceType)) = {}

\* C6: normalizeResourceType returns the alias table's canonical name when
\* the lower-cased input is an alias, and otherwise the lower-cased input
\* with "s" appended exactly when it does not already end in "s".
C6_NormalizeContract ==
    ReturnedFrom("normalizeResourceType") =>
        LET x     == call.resourceType
            lower == ToLower(x)
        IN  /\ Len(lower) = Len(x)
            /\ lower \in DOMAIN aliases => ret.name = aliases[lower]
            /\ (lower \notin DOMAIN aliases
                    /\ Len(lower) > 0 /\ lower[Len(lower)] = "s") =>
                   ret.name = lower
            /\ (lower \notin DOMAIN aliases
                    /\ (Len(lower) = 0 \/ lower[Len(lower)] # "s")) =>
                   ret.name = Append(lower, "s")
            /\ x = <<"w","i","d","g","e","t">> =>
                   ret.name = <<"w","i","d","g","e","t","s">>
            /\ x = <<"c","m">> =>
                   ret.name = <<"c","o","n","f","i","g","m","a","p","s">>

\* an alias written in capitals was mapped to its canonical name
C6_Witness ==
    /\ ReturnedFrom("normalizeResourceType")
    /\ call.resourceType = <<"P","V","C">>
    /\ ret.name = aliases[<<"p","v","c">>]

\* C7 as claimed: normalizing an already normalized name changes nothing.
C7_Idempotent ==
    ReturnedFrom("normalizeResourceType") =>
        normalizeResourceType(ret.name) = ret.name

\* the inputs whose plural guess is itself an alias
PluralIsAlias == { <<"n">>, <<"r">>, <<"d">>, <<"s","t">> }

\* C7 amended: normalize(normalize(x)) = normalize(x) for every x whose
\* lower-cased form is none of "n", "r", "d", "st"; for those four the
\* first result ("ns", "rs", "ds", "sts") is an alias and normalizing it
\* again gives the alias's canonical name.
C7_IdempotentUnlessPluralIsAlias ==
    ReturnedFrom("normalizeResourceType") =>
        IF ToLower(call.resourceType) \in PluralIsAlias
        THEN /\ ret.name \in DOMAIN aliases
             /\ normalizeResourceType(ret.name) = aliases[ret.name]
             /\ normalizeResourceType(ret.name) # ret.name
        ELSE normalizeResourceType(ret.name) = ret.name

\* a name that needed the plural "s" and is then left alone
C7_Witness ==
    /\ ReturnedFrom("normalizeResourceType")
    /\ call.resourceType = <<"W","i","d","g","e","t">>
    /\ ret.name = <<"w","i","d","g","e","t","s">>
    /\ normalizeResourceType(ret.name) = ret.name

----------------------------------------------------------------------------
(* Properties of the column schema registry.                               *)

\* C5 as claimed: every resource type the column registry knows is a key
\* of the static default table, so a registry-known type that the catalog
\* does not list never gets the heuristic core/v1 descriptor.
C5_RegistryTypesInDefaultTable ==
    (ReturnedFrom("DiscoverGVR") /\ ~call.queryErr) =>
        LET t == normalizeResourceType(call.resourceType)
        IN  t \in DOMAIN columns => t \in DOMAIN defaults

\* the display names of a column sequence, in order
ColumnNames(cols) == [i \in DOMAIN cols |-> cols[i].Name]

\* C8: GetResourceColumns finds the type string whatever its letter case
\* and returns the fixed ordered columns of that key: READY, STATUS,
\* RESTARTS, AGE for pods; TYPE, CLUSTER-IP, EXTERNAL-IP, PORT(S), AGE for
\* services; READY, UP-TO-DATE, AVAILABLE, AGE for deployments; a string
\* that is no registry key gives the single AGE column.
C8_ColumnsOfType ==
    ReturnedFrom("GetResourceColumns") =>
        LET x == ToLower(call.resourceType)
        IN  /\ x = <<"p","o","d","s">> =>
                   ColumnNames(ret.columns) =
                       << <<"R","E","A","D","Y">>,
                          <<"S","T","A","T","U","S">>,
                          <<"R","E","S","T","A","R","T","S">>,
                          <<"A","G","E">> >>
            /\ x = <<"s","e","r","v","i","c","e","s">> =>
                   ColumnNames(ret.columns) =
                       << <<"T","Y","P","E">>,
                          <<"C","L","U","S","T","E","R","-","I","P">>,
                          <<"E","X","T","E","R","N","A","L","-","I","P">>,
                          <<"P","O","R","T","(","S",")">>,
                          <<"A","G","E">> >>
            /\ x = <<"d","e","p","l","o","y","m","e","n","t","s">> =>
                   ColumnNames(ret.columns) =
                       << <<"R","E","A","D","Y">>,
                          <<"U","P","-","T","O","-","D","A","T","E">>,
                          <<"A","V","A","I","L","A","B","L","E">>,
                          <<"A","G","E">> >>
            /\ x \in DOMAIN columns => ret.columns = columns[x]
            /\ x \notin DOMAIN columns =>
                   ret.columns = << [Name |-> <<"A","G","E">>,
                             JSONPath |-> <<"m","e","t","a","d","a","t","a",".","c","r","e","a","t","i","o","n","T","i","m","e","s","t","a","m","p">>,
                             DefaultValue |-> <<"<","u","n","k","n","o","w","n",">">>] >>

\* "Services", capitalised, got the five service columns
C8_Witness ==
    /\ ReturnedFrom("GetResourceColumns")
    /\ call.resourceType = <<"S","e","r","v","i","c","e","s">>
    /\ Len(ret.columns) = 5
    /\ ret.columns[4].Name = <<"P","O","R","T","(","S",")">>

----------------------------------------------------------------------------
(* Properties of the extraction engine.                                    *)

\* C9 as claimed: for every column of every resource type of the registry,
\* ExtractColumnValue on a record that lacks the column's field (the empty
\* record lacks every field) returns exactly that column's DefaultValue.
C9_DefaultOnAbsence ==
    (ReturnedFrom("ExtractColumnValue")
        /\ call.resourceType \in DOMAIN columns
        /\ call.obj = EmptyRecord)
    => ret.value = call.column.DefaultValue

\* C10 as claimed: for every record and every column ExtractColumnValue
\* returns a non-empty display string or the column's DefaultValue, never
\* an empty string that is not the DefaultValue.
C10_NonEmptyOrDefault ==
    ReturnedFrom("ExtractColumnValue") =>
        (ret.value # <<>> \/ ret.value = call.column.DefaultValue)

\* C11: a column whose path is empty renders its DefaultValue whatever its
\* name and whatever the record; so the OBJECT column of events, declared
\* with an empty path, renders "<unknown>" even for an event that has
\* involvedObject.kind and involvedObject.name.
C11_EmptyPathGivesDefault ==
    ReturnedFrom("ExtractColumnValue") =>
        /\ call.column.JSONPath = <<>> =>
               ret.value = call.column.DefaultValue
        /\ (call.resourceType = <<"e","v","e","n","t","s">> /\ call.column.Name = <<"O","B","J","E","C","T">>) =>
               ret.value = <<"<","u","n","k","n","o","w","n",">">>

\* the OBJECT column of events on an event about Pod web-0
C11_Witness ==
    /\ ReturnedFrom("ExtractColumnValue")
    /\ call.resourceType = <<"e","v","e","n","t","s">>
    /\ call.column.Name = <<"O","B","J","E","C","T">>
    /\ call.column.JSONPath = <<>>
    /\ NestedString(call.obj, << <<"i","n","v","o","l","v","e","d","O","b","j","e","c","t">>, <<"k","i","n","d">> >>).val = <<"P","o","d">>
    /\ NestedString(call.obj, << <<"i","n","v","o","l","v","e","d","O","b","j","e","c","t">>, <<"n","a","m","e">> >>).val = <<"w","e","b","-","0">>
    /\ extractObjectValue(call.obj) = <<"P","o","d","/","w","e","b","-","0">>
    /\ ret.value = <<"<","u","n","k","n","o","w","n",">">>

\* the value at status.containerStatuses, as the decoder left it
ContainerStatusesOf(obj) ==
    NestedFieldNoCopy(obj, << <<"s","t","a","t","u","s">>, <<"c","o","n","t","a","i","n","e","r","S","t","a","t","u","s","e","s">> >>)

\* the positions of a list whose entry is a map with "ready" the boolean
\* true
ReadyPositions(list) ==
    {i \in DOMAIN list :
        /\ TypeOf(list[i]) = "map"
        /\ <<"r","e","a","d","y">> \in DOMAIN ValueOf(list[i])
        /\ ValueOf(list[i])[<<"r","e","a","d","y">>] = BoolVal(TRUE)}

\* C12: the READY cell of a record whose status.containerStatuses is a
\* sequence of t entries, r of them with "ready" the boolean true, is
\* "r/t" (r <= t; ready, not ready, ready gives "2/3"); without the
\* sequence it is "0/0".
C12_ReadyCounts ==
    (ReturnedFrom("ExtractColumnValue") /\ call.column.Name = <<"R","E","A","D","Y">>
        /\ call.column.JSONPath # <<>>) =>
        LET cs == ContainerStatusesOf(call.obj)
        IN  /\ (cs.found /\ TypeOf(cs.val) = "slice") =>
                   LET t == Len(ValueOf(cs.val))
                       r == Cardinality(ReadyPositions(ValueOf(cs.val)))
                   IN  /\ r <= t
                       /\ ret.value = Itoa(r) \o <<"/">> \o Itoa(t)
            /\ ~cs.found => ret.value = <<"0","/","0">>
            /\ call.obj = PodOfThree => ret.value = <<"2","/","3">>

\* the pod with containers ready, not ready, ready rendered "2/3"
C12_Witness ==
    /\ ReturnedFrom("ExtractColumnValue")
    /\ call.resourceType = <<"p","o","d","s">>
    /\ call.column.Name = <<"R","E","A","D","Y">>
    /\ call.obj = PodOfThree
    /\ ret.value = <<"2","/","3">>

\* the integer restart count of a list entry, 0 for an entry without one
RestartCountOf(entry) ==
    IF TypeOf(entry) = "map"
    THEN IF <<"r","e","s","t","a","r","t","C","o","u","n","t">> \in DOMAIN ValueOf(entry)
         THEN IF TypeOf(ValueOf(entry)[<<"r","e","s","t","a","r","t","C","o","u","n","t">>]) = "int64"
              THEN ValueOf(ValueOf(entry)[<<"r","e","s","t","a","r","t","C","o","u","n","t">>])
              ELSE 0
         ELSE 0
    ELSE 0

RECURSIVE TotalRestarts(_)
TotalRestarts(list) ==
    IF list = <<>>
    THEN 0
    ELSE RestartCountOf(list[Len(list)])
            + TotalRestarts(SubSeq(list, 1, Len(list) - 1))

\* C13: the RESTARTS cell is the decimal rendering of the sum of the
\* integer "restartCount" of every entry of status.containerStatuses
\* (2, 0 and 3 give "5"), an entry without one counting 0; without the
\* sequence it is "0".
C13_RestartsSum ==
    (ReturnedFrom("ExtractColumnValue") /\ call.column.Name = <<"R","E","S","T","A","R","T","S">>
        /\ call.column.JSONPath # <<>>) =>
        LET cs == ContainerStatusesOf(call.obj)
        IN  /\ (cs.found /\ TypeOf(cs.val) = "slice") =>
                   ret.value = Itoa(TotalRestarts(ValueOf(cs.val)))
            /\ ~cs.found => ret.value = <<"0">>
            /\ call.obj = PodOfThree => ret.value = <<"5">>

\* the pod whose containers restarted 2, 0 and 3 times rendered "5"
C13_Witness ==
    /\ ReturnedFrom("ExtractColumnValue")
    /\ call.resourceType = <<"p","o","d","s">>
    /\ call.column.Name = <<"R","E","S","T","A","R","T","S">>
    /\ call.obj = PodOfThree
    /\ TotalRestarts(ValueOf(ContainerStatusesOf(call.obj).val)) = 5
    /\ ret.value = <<"5">>

\* the value at status.loadBalancer.ingress, as the decoder left it
IngressOf(obj) ==
    NestedFieldNoCopy(obj, << <<"s","t","a","t","u","s">>, <<"l","o","a","d","B","a","l","a","n","c","e","r">>, <<"i","n","g","r","e","s","s">> >>)

\* the usable value of an ingress entry, as a list of at most one string:
\* its ip when that is a string, otherwise its hostname when that is one
UsableOf(entry) ==
    IF TypeOf(entry) # "map"
    THEN <<>>
    ELSE LET m == ValueOf(entry)
             usable(k) == IF k \in DOMAIN m
                          THEN TypeOf(m[k]) = "string"
                          ELSE FALSE
         IN  IF usable(<<"i","p">>)
             THEN <<ValueOf(m[<<"i","p">>])>>
             ELSE IF usable(<<"h","o","s","t","n","a","m","e">>)
             THEN <<ValueOf(m[<<"h","o","s","t","n","a","m","e">>])>>
             ELSE <<>>

\* C14 as claimed: the EXTERNAL-IP cell is the comma-joined usable values
\* (ip, otherwise hostname) of the entries of status.loadBalancer.ingress
\* in entry order; "<pending>" when the array is present, empty included,
\* and yields no usable value; "<none>" only when the array is absent and
\* no external IPs are configured.
C14_ExternalIP ==
    (ReturnedFrom("ExtractColumnValue")
        /\ call.column.Name = <<"E","X","T","E","R","N","A","L","-","I","P">>
        /\ call.column.JSONPath # <<>>) =>
        LET ing == IngressOf(call.obj)
            externalIPs == NestedFieldNoCopy(call.obj,
                                             << <<"s","p","e","c">>, <<"e","x","t","e","r","n","a","l","I","P","s">> >>)
        IN  /\ (ing.found /\ TypeOf(ing.val) = "slice") =>
                   LET list == ValueOf(ing.val)
                       values == Flatten([i \in DOMAIN list |->
                                            UsableOf(list[i])])
                   IN  IF values # <<>>
                       THEN ret.value = Join(values, <<",">>)
                       ELSE ret.value = <<"<","p","e","n","d","i","n","g",">">>
            /\ ret.value = <<"<","n","o","n","e",">">> => (~ing.found /\ ~externalIPs.found)

\* a timestamp field of a record: whether it holds a string, and the
\* parse of that string
TimeAt(obj, fields) ==
    LET f == NestedFieldNoCopy(obj, fields)
        isString == IF f.found THEN TypeOf(f.val) = "string" ELSE FALSE
    IN  [present |-> isString,
         parse |-> IF isString
                   THEN ParseRFC3339(ValueOf(f.val))
                   ELSE [err |-> TRUE, unix |-> 0]]

\* C15: with status.startTime and status.completionTime both parsing as
\* RFC 3339 the DURATION cell is completion minus start (90 seconds apart
\* gives "1m30s") and is the same at every reading of the clock; without
\* a completion time it is the clock minus start; with the start missing
\* or unparseable it is "<unknown>".
C15_Duration ==
    (ReturnedFrom("ExtractColumnValue") /\ call.column.Name = <<"D","U","R","A","T","I","O","N">>
        /\ call.column.JSONPath # <<>>) =>
        LET start == TimeAt(call.obj, << <<"s","t","a","t","u","s">>, <<"s","t","a","r","t","T","i","m","e">> >>)
            completion == TimeAt(call.obj, << <<"s","t","a","t","u","s">>, <<"c","o","m","p","l","e","t","i","o","n","T","i","m","e">> >>)
        IN  /\ (~start.parse.err /\ ~completion.parse.err) =>
                   /\ ret.value = DurationString(completion.parse.unix
                                                  - start.parse.unix)
                   /\ \A later \in Clock :
                          ExtractColumnValue(call.obj, call.column, later,
                                             call.order) = ret.value
            /\ (~start.parse.err /\ ~completion.present) =>
                   ret.value = DurationString(call.now - start.parse.unix)
            /\ start.parse.err => ret.value = <<"<","u","n","k","n","o","w","n",">">>
            /\ (start.present /\ completion.present
                    /\ ValueOf(NestedFieldNoCopy(call.obj,
                           << <<"s","t","a","t","u","s">>, <<"s","t","a","r","t","T","i","m","e">> >>).val) = T0
                    /\ ValueOf(NestedFieldNoCopy(call.obj,
                           << <<"s","t","a","t","u","s">>, <<"c","o","m","p","l","e","t","i","o","n","T","i","m","e">> >>).val) = T90) =>
                   ret.value = <<"1","m","3","0","s">>

\* a job that ran from T0 to T90, rendered "1m30s" at a clock reading
\* that is not 90 seconds after T0
C15_Witness ==
    /\ ReturnedFrom("ExtractColumnValue")
    /\ call.resourceType = <<"j","o","b","s">>
    /\ call.column.Name = <<"D","U","R","A","T","I","O","N">>
    /\ NestedString(call.obj, << <<"s","t","a","t","u","s">>, <<"s","t","a","r","t","T","i","m","e">> >>).val = T0
    /\ NestedString(call.obj, << <<"s","t","a","t","u","s">>, <<"c","o","m","p","l","e","t","i","o","n","T","i","m","e">> >>).val = T90
    /\ call.now - ParseRFC3339(T0).unix # 90
    /\ ret.value = <<"1","m","3","0","s">>

\* the list a subset holds under key k, empty when it holds none
ListOf(subset, k) ==
    IF TypeOf(subset) = "map"
    THEN IF k \in DOMAIN ValueOf(subset)
         THEN IF TypeOf(ValueOf(subset)[k]) = "slice"
              THEN ValueOf(ValueOf(subset)[k])
              ELSE <<>>
         ELSE <<>>
    ELSE <<>>

\* the values of type type that the map entries of a list hold under key
\* k, in list order
RECURSIVE ValuesUnder(_, _, _)
ValuesUnder(list, k, type) ==
    IF list = <<>>
    THEN <<>>
    ELSE LET e == Head(list)
             here == IF TypeOf(e) = "map"
                     THEN IF k \in DOMAIN ValueOf(e)
                          THEN IF TypeOf(ValueOf(e)[k]) = type
                               THEN <<ValueOf(ValueOf(e)[k])>>
                               ELSE <<>>
                          ELSE <<>>
                     ELSE <<>>
         IN  here \o ValuesUnder(Tail(list), k, type)

\* the "ip:port" pairs of one subset, address-major
PairsOfSubset(subset) ==
    LET ips == ValuesUnder(ListOf(subset, <<"a","d","d","r","e","s","s","e","s">>), <<"i","p">>, "string")
        nums == ValuesUnder(ListOf(subset, <<"p","o","r","t","s">>), <<"p","o","r","t">>, "int64")
        n == Len(nums)
    IN  [k \in 1..(Len(ips) * n) |->
            ips[((k - 1) \div n) + 1] \o <<":">> \o Itoa(nums[((k - 1) % n) + 1])]

RECURSIVE PairsOfSubsets(_)
PairsOfSubsets(subsets) ==
    IF subsets = <<>>
    THEN <<>>
    ELSE PairsOfSubset(Head(subsets)) \o PairsOfSubsets(Tail(subsets))

\* C16: the ENDPOINTS cell is the comma-joined "ip:port" pairs, subset by
\* subset in order, of every address with a string ip and every port with
\* an integer port of the same subset, address-major; a subset without
\* addresses or without ports adds nothing; with no pair the cell is
\* "<none>".
C16_Endpoints ==
    (ReturnedFrom("ExtractColumnValue") /\ call.column.Name = <<"E","N","D","P","O","I","N","T","S">>
        /\ call.column.JSONPath # <<>>) =>
        LET subsets == NestedFieldNoCopy(call.obj, << <<"s","u","b","s","e","t","s">> >>)
        IN  /\ (subsets.found /\ TypeOf(subsets.val) = "slice") =>
                   LET pairs == PairsOfSubsets(ValueOf(subsets.val))
                   IN  IF pairs = <<>>
                       THEN ret.value = <<"<","n","o","n","e",">">>
                       ELSE ret.value = Join(pairs, <<",">>)
            /\ ~subsets.found => ret.value = <<"<","n","o","n","e",">">>

\* two subsets, the first with two addresses and two ports, the second
\* with ports only: the four pairs of the first, address-major
C16_Witness ==
    /\ ReturnedFrom("ExtractColumnValue")
    /\ call.resourceType = <<"e","n","d","p","o","i","n","t","s">>
    /\ call.column.Name = <<"E","N","D","P","O","I","N","T","S">>
    /\ NestedSlice(call.obj, << <<"s","u","b","s","e","t","s">> >>).found
    /\ Len(NestedSlice(call.obj, << <<"s","u","b","s","e","t","s">> >>).val) = 2
    /\ ListOf(NestedSlice(call.obj, << <<"s","u","b","s","e","t","s">> >>).val[2], <<"a","d","d","r","e","s","s","e","s">>) = <<>>
    /\ Len(ListOf(NestedSlice(call.obj, << <<"s","u","b","s","e","t","s">> >>).val[2], <<"p","o","r","t","s">>)) = 1
    /\ ret.value = <<"1","0",".","0",".","0",".","1",":","8","0",",","1","0",".","0",".","0",".","1",":","4","4","3",",","1","0",".","0",".","0",".","2",":","8","0",",","1","0",".","0",".","0",".","2",":","4","4","3">>

\* an address-only subset followed by a port-only subset: no pair
C16_WitnessNoCrossPairing ==
    /\ ReturnedFrom("ExtractColumnValue")
    /\ call.column.Name = <<"E","N","D","P","O","I","N","T","S">>
    /\ NestedSlice(call.obj, << <<"s","u","b","s","e","t","s">> >>).found
    /\ Len(NestedSlice(call.obj, << <<"s","u","b","s","e","t","s">> >>).val) = 2
    /\ Len(ListOf(NestedSlice(call.obj, << <<"s","u","b","s","e","t","s">> >>).val[1], <<"a","d","d","r","e","s","s","e","s">>)) = 1
    /\ Len(ListOf(NestedSlice(call.obj, << <<"s","u","b","s","e","t","s">> >>).val[2], <<"p","o","r","t","s">>)) = 1
    /\ ListOf(NestedSlice(call.obj, << <<"s","u","b","s","e","t","s">> >>).val[1], <<"p","o","r","t","s">>) = <<>>
    /\ ListOf(NestedSlice(call.obj, << <<"s","u","b","s","e","t","s">> >>).val[2], <<"a","d","d","r","e","s","s","e","s">>) = <<>>
    /\ ret.value = <<"<","n","o","n","e",">">>

\* the capacity values a record holds at a level: the strings of the map
\* at fields, and the strings under "string" of its map-valued entries
CapacityValuesAt(obj, fields) ==
    LET f == NestedFieldNoCopy(obj, fields)
        m == IF f.found
             THEN IF TypeOf(f.val) = "map" THEN ValueOf(f.val) ELSE <<>>
             ELSE <<>>
        valueOf(v) ==
            IF TypeOf(v) = "string"
            THEN {ValueOf(v)}
            ELSE IF TypeOf(v) = "map"
            THEN IF <<"s","t","r","i","n","g">> \in DOMAIN ValueOf(v)
                 THEN IF TypeOf(ValueOf(v)[<<"s","t","r","i","n","g">>]) = "string"
                      THEN {ValueOf(ValueOf(v)[<<"s","t","r","i","n","g">>])}
                      ELSE {}
                 ELSE {}
            ELSE {}
    IN  UNION {valueOf(m[k]) : k \in DOMAIN m}

\* C17 as claimed: the CAPACITY cell comes from spec.capacity first and
\* then from status.capacity: when spec.capacity yields no value (absent,
\* or present but empty) and status.capacity holds one, the cell is a
\* status-level value; the cell is a value of the consulted maps or
\* "<unknown>", and "<unknown>" only when neither level holds a value.
C17_CapacitySpecThenStatus ==
    (ReturnedFrom("ExtractColumnValue") /\ call.column.Name = <<"C","A","P","A","C","I","T","Y">>
        /\ call.column.JSONPath # <<>>) =>
        LET atSpec == CapacityValuesAt(call.obj, << <<"s","p","e","c">>, <<"c","a","p","a","c","i","t","y">> >>)
            atStatus == CapacityValuesAt(call.obj, << <<"s","t","a","t","u","s">>, <<"c","a","p","a","c","i","t","y">> >>)
        IN  /\ (atSpec = {} /\ atStatus # {}) => ret.value \in atStatus
            /\ ret.value \in atSpec \cup atStatus \cup { <<"<","u","n","k","n","o","w","n",">">> }
            /\ ret.value = <<"<","u","n","k","n","o","w","n",">">> => (atSpec = {} /\ atStatus = {})

\* the rendered "key=value" pairs of a label map
RenderedPairs(labels) ==
    {k \o <<"=">> \o labels[k] : k \in DOMAIN labels}

\* C18: FormatLabels gives "<none>" for a label map without entries and
\* otherwise the "key=value" pairs of all entries, comma-joined in the
\* byte order of the rendered pairs, so the text is the same for every
\* iteration order of the map (b=2 with a=1 gives "a=1,b=2").
C18_FormatLabelsSorted ==
    ReturnedFrom("FormatLabels") =>
        LET labels == call.labels
            parts == Split(ret.text, ",")
        IN  /\ DOMAIN labels = {} => ret.text = <<"<","n","o","n","e",">">>
            /\ DOMAIN labels # {} =>
                   /\ Len(parts) = Cardinality(DOMAIN labels)
                   /\ {parts[i] : i \in DOMAIN parts} = RenderedPairs(labels)
                   /\ \A i \in 1..(Len(parts) - 1) :
                          Less(parts[i], parts[i + 1])
            /\ \A order \in LabelOrders :
                   FormatLabels(labels, order) = ret.text
            /\ labels = ( <<"b">> :> <<"2">> @@ <<"a">> :> <<"1">> ) =>
                   ret.text = <<"a","=","1",",","b","=","2">>

\* the range loop visited b before a, the text is "a=1,b=2"
C18_Witness ==
    /\ ReturnedFrom("FormatLabels")
    /\ call.labels = ( <<"b">> :> <<"2">> @@ <<"a">> :> <<"1">> )
    /\ \E i, j \in DOMAIN call.order :
           i < j /\ call.order[i] = <<"b">> /\ call.order[j] = <<"a">>
    /\ ret.text = <<"a","=","1",",","b","=","2">>

\* C19 as claimed: for every column that neither reads the clock nor is
\* CAPACITY, the cell of a record is the same string at every evaluation,
\* whatever order the range loops visit the record's maps in (HARD, USED,
\* POD-SELECTOR, NODE SELECTOR and the PORTS column of ingresses too).
C19_SameCellForEveryRangeOrder ==
    (ReturnedFrom("ExtractColumnValue")
        /\ call.column.Name \notin ClockColumns
        /\ call.column.Name # <<"C","A","P","A","C","I","T","Y">>) =>
        \A order \in RangeOrders :
            ExtractColumnValue(call.obj, call.column, call.now, order)
                = ret.value

----------------------------------------------------------------------------
(* Properties of concurrent calls.                                         *)

\* what the call of an activation record returns when it runs alone
ResultAlone(frame) ==
    CASE frame.op = "DiscoverGVR" ->
             DiscoverGVR(frame.queryErr, frame.apiResourceLists,
                         frame.resourceType)
      [] frame.op = "GetResourceColumns" ->
             [columns |-> GetResourceColumns(frame.resourceType)]
      [] frame.op = "ExtractColumnValue" ->
             [value |-> ExtractColumnValue(frame.obj, frame.column,
                                           frame.now, frame.order)]

\* C20: under every interleaving of the steps of concurrent calls of
\* DiscoverGVR, GetResourceColumns and ExtractColumnValue, every call that
\* has returned returned what it returns when it runs alone with the same
\* arguments: no step of another caller changed anything it read.
C20_SameResultAsAlone ==
    \A c \in Callers : pc[c] = "done" => ret[c] = ResultAlone(call[c])

\* two calls of DiscoverGVR with different type strings have both
\* returned without error, each having taken steps while the other was in
\* flight
C20_Witness ==
    \E c, d \in Callers :
        /\ c # d
        /\ pc[c] = "done" /\ pc[d] = "done"
        /\ call[c].op = "DiscoverGVR" /\ call[d].op = "DiscoverGVR"
        /\ call[c].overlapped /\ call[d].overlapped
        /\ call[c].resourceType # call[d].resourceType
        /\ ~ret[c].err /\ ~ret[d].err
        /\ ret[c] # ret[d]

----------------------------------------------------------------------------
(* Properties of the generic traversal.                                    *)

\* the display names without a specialized extractor
GenericNames ==
    { <<"A","G","E">>, <<"R","E","C","L","A","I","M"," ","P","O","L","I","C","Y">>, <<"R","E","A","S","O","N">>, <<"V","O","L","U","M","E">>, <<"P","R","O","V","I","S","I","O","N","E","R">>,
      <<"R","E","C","L","A","I","M","P","O","L","I","C","Y">>, <<"V","O","L","U","M","E","B","I","N","D","I","N","G","M","O","D","E">>, <<"M","E","S","S","A","G","E">> }

\* the walk from val along the segments: the leaf when every segment is
\* present in a map, and why not otherwise
RECURSIVE WalkTo(_, _)
WalkTo(val, segments) ==
    IF segments = <<>>
    THEN [reached |-> TRUE, leaf |-> val]
    ELSE IF TypeOf(val) # "map"
    THEN [reached |-> FALSE, why |-> "no map"]
    ELSE IF Head(segments) \notin DOMAIN ValueOf(val)
    THEN [reached |-> FALSE, why |-> "absent"]
    ELSE WalkTo(ValueOf(val)[Head(segments)], Tail(segments))

\* C21: for a column with a non-empty path and a display name without a
\* specialized extractor, ExtractColumnValue walks the record along the
\* path split on "." and returns the leaf unchanged when every segment is
\* present and the leaf is a string, and the column's default when a
\* segment is absent, an intermediate value is no map or the leaf is no
\* string; AGE so renders the raw creationTimestamp string.
C21_GenericTraversal ==
    (ReturnedFrom("ExtractColumnValue")
        /\ call.column.Name \in GenericNames
        /\ call.column.JSONPath # <<>>) =>
        LET w == WalkTo(call.obj, Split(call.column.JSONPath, "."))
        IN  IF w.reached /\ TypeOf(w.leaf) = "string"
            THEN ret.value = ValueOf(w.leaf)
            ELSE ret.value = call.column.DefaultValue

\* the AGE cell of a record created at T0 is the string T0 itself
C21_Witness ==
    /\ ReturnedFrom("ExtractColumnValue")
    /\ call.column.Name = <<"A","G","E">>
    /\ call.column.JSONPath = <<"m","e","t","a","d","a","t","a",".","c","r","e","a","t","i","o","n","T","i","m","e","s","t","a","m","p">>
    /\ WalkTo(call.obj, Split(call.column.JSONPath, ".")).reached
    /\ ret.value = T0
    /\ ret.value # call.column.DefaultValue

\* the default is returned for a leaf that is no string, for an absent
\* segment and for an intermediate value that is no map
C21_WitnessLeafNoString ==
    /\ ReturnedFrom("ExtractColumnValue")
    /\ call.column.Name \in GenericNames
    /\ LET w == WalkTo(call.obj, Split(call.column.JSONPath, "."))
       IN  w.reached /\ TypeOf(w.leaf) = "int64"
    /\ ret.value = call.column.DefaultValue

C21_WitnessNoMap ==
    /\ ReturnedFrom("ExtractColumnValue")
    /\ call.column.Name \in GenericNames
    /\ LET w == WalkTo(call.obj, Split(call.column.JSONPath, "."))
       IN  ~w.reached /\ w.why = "no map"
               /\ TypeOf(call.obj) = "map" /\ ValueOf(call.obj) # <<>>
    /\ ret.value = call.column.DefaultValue

----------------------------------------------------------------------------
(* Properties of the label rendering of the get package.                   *)

\* C22 as claimed: formatLabels of the get package gives "<none>" for a
\* label map without entries and otherwise the "key=value" pairs of all
\* entries, comma-joined in the byte order of the rendered pairs, the same
\* text for every iteration order of the map (b=2 with a=1 gives
\* "a=1,b=2").
C22_formatLabelsSorted ==
    ReturnedFrom("formatLabels") =>
        LET labels == call.labels
            parts == Split(ret.text, ",")
        IN  /\ DOMAIN labels = {} => ret.text = <<"<","n","o","n","e",">">>
            /\ DOMAIN labels # {} =>
                   /\ Len(parts) = Cardinality(DOMAIN labels)
                   /\ {parts[i] : i \in DOMAIN parts} = RenderedPairs(labels)
                   /\ \A i \in 1..(Len(parts) - 1) :
                          Less(parts[i], parts[i + 1])
            /\ \A order \in LabelOrders :
                   formatLabels(labels, order) = ret.text
            /\ labels = ( <<"b">> :> <<"2">> @@ <<"a">> :> <<"1">> ) =>
                   ret.text = <<"a","=","1",",","b","=","2">>

\* what does hold of formatLabels: "<none>" for a map without entries,
\* otherwise every rendered pair once, comma-joined in the order of the
\* range loop
C22_formatLabelsInRangeOrder ==
    ReturnedFrom("formatLabels") =>
        LET labels == call.labels
            keys == RangeOrder(DOMAIN labels, call.order)
        IN  IF DOMAIN labels = {}
            THEN ret.text = <<"<","n","o","n","e",">">>
            ELSE ret.text =
                     Join([i \in DOMAIN keys |->
                              keys[i] \o <<"=">> \o labels[keys[i]]], <<",">>)

----------------------------------------------------------------------------
(* Properties of the resolution by abbreviation.                           *)

\* the singular name or a short name of the API resource equals t up to
\* letter case
AbbreviationMatches(apiResource, t) ==
    \E n \in {apiResource.SingularName}
                \cup {apiResource.ShortNames[k] :
                        k \in DOMAIN apiResource.ShortNames} :
        ToLower(n) = ToLower(t)

\* positions of the entries of parsable lists that t abbreviates
AbbreviationPositions(lists, t) ==
    {p \in UNION {{<<i, j>> : j \in DOMAIN lists[i].APIResources} :
                     i \in DOMAIN lists} :
        /\ Parses(lists[p[1]].GroupVersion)
        /\ AbbreviationMatches(lists[p[1]].APIResources[p[2]], t)}

\* C23 as claimed: when the type string the user supplied equals, up to
\* letter case, the singular name or a short name the catalog declares for
\* a resource, and no earlier catalog entry matches, DiscoverGVR returns
\* the descriptor of that catalog resource, also for a string that is no
\* alias and does not end in "s".
C23_ResolvedByAbbreviation ==
    (ReturnedFrom("DiscoverGVR") /\ ~call.queryErr) =>
        LET lists == call.apiResourceLists
            A == AbbreviationPositions(lists, call.resourceType)
            E == A \cup ParsableMatchPositions(lists,
                        normalizeResourceType(call.resourceType))
        IN  (A # {} /\ FirstPosition(E) \in A) =>
                ret = DescriptorAt(lists, FirstPosition(E))

----------------------------------------------------------------------------
(* Properties of the dispatch.                                             *)

\* the display names with a specialized extractor: every name of the
\* registry but the generic ones
SpecializedNames ==
    UNION {{columns[t][i].Name : i \in DOMAIN columns[t]} :
              t \in DOMAIN columns} \ GenericNames

\* the non-empty paths and the defaults column definitions declare
DeclaredPaths ==
    UNION {{columns[t][i].JSONPath : i \in DOMAIN columns[t]} :
              t \in DOMAIN columns} \ {<<>>}

DeclaredDefaults ==
    UNION {{columns[t][i].DefaultValue : i \in DOMAIN columns[t]} :
              t \in DOMAIN columns} \cup { <<"-">> }

\* C24: for a column with a non-empty path whose display name has a
\* specialized extractor, the cell is the same string for every other
\* non-empty path and every other default the column could declare, and
\* so for every resource type declaring a column of that name (READY of
\* pods and of deployments, TYPE of services and of secrets, DESIRED of
\* replicasets and of daemonsets): it depends on the record and the
\* display name alone.
C24_DispatchByNameAlone ==
    (ReturnedFrom("ExtractColumnValue")
        /\ call.column.Name \in SpecializedNames
        /\ call.column.JSONPath # <<>>) =>
        /\ \A path \in DeclaredPaths :
               ExtractColumnValue(call.obj,
                   [call.column EXCEPT !.JSONPath = path],
                   call.now, call.order) = ret.value
        /\ \A default \in DeclaredDefaults :
               ExtractColumnValue(call.obj,
                   [call.column EXCEPT !.DefaultValue = default],
                   call.now, call.order) = ret.value
        /\ \A t \in DOMAIN columns : \A i \in DOMAIN columns[t] :
               (columns[t][i].Name = call.column.Name
                   /\ columns[t][i].JSONPath # <<>>) =>
                   ExtractColumnValue(call.obj, columns[t][i],
                                      call.now, call.order) = ret.value

\* the TYPE column of secrets, declared at the path type with the default
\* "Opaque", on a record holding a string at type, gave what the TYPE
\* column of services gives, and neither that string nor the default
C24_Witness ==
    /\ ReturnedFrom("ExtractColumnValue")
    /\ call.resourceType = <<"s","e","c","r","e","t","s">>
    /\ call.column.Name = <<"T","Y","P","E">>
    /\ call.column.JSONPath = <<"t","y","p","e">>
    /\ LET r == NestedString(call.obj, << <<"t","y","p","e">> >>)
       IN  r.found /\ ~r.err /\ r.val # <<>> /\ r.val # ret.value
    /\ ret.value # call.column.DefaultValue
    /\ \E i \in DOMAIN columns[<<"s","e","r","v","i","c","e","s">>] :
           /\ columns[<<"s","e","r","v","i","c","e","s">>][i].Name = <<"T","Y","P","E">>
           /\ columns[<<"s","e","r","v","i","c","e","s">>][i].JSONPath # call.column.JSONPath
           /\ ExtractColumnValue(call.obj, columns[<<"s","e","r","v","i","c","e","s">>][i],
                                 call.now, call.order) = ret.value

====
